---- MODULE Spec2Model ----
(***************************************************************************)
(* Model of the MaxScale avrorouter (CDC): the client session engine of    *)
(* server/modules/routing/avro/avro_client.c (specification Spec) and the  *)
(* conversion driver of avro_file.c (specification DriverSpec).            *)
(*                                                                         *)
(* Requests, file names and replies are sequences of one-character         *)
(* strings, so that the parsing done by the C code (strstr, strchr,        *)
(* strtol, snprintf) is modelled by what it does.  A request buffer is     *)
(* read as a C string: the bytes after its last character are NUL, so a    *)
(* pointer at or past its end is the empty string.                         *)
(***************************************************************************)
EXTENDS Integers, Sequences, FiniteSets, TLC

(***************************************************************************)
(* Bounds of the model.                                                    *)
(***************************************************************************)
\* poll threads that may run the drain callback of the session
NumThreads == 2
\* requests that name a file (REQUEST-DATA with data) the client sends
MaxDataRequests == 2
\* row records the converter writes to the Avro files
MaxRows == 4
\* records of one flushed block
MaxBlockRows == 2
\* table versions (files d.t.00000N.avro) the converter creates
MaxVersions == 2
\* write-ready events that can be queued for the DCB
MaxEvents == 1

Threads == 1..NumThreads

(***************************************************************************)
(* Program constants.                                                      *)
(***************************************************************************)
AVRO_CLIENT_UNREGISTERED == 0
AVRO_CLIENT_REGISTERED == 1
AVRO_CLIENT_REQUEST_DATA == 2
AVRO_CLIENT_ERRORED == 3
AVRO_CS_BUSY == 1
AVRO_WAIT_DATA == 2
AVRO_MAX_FILENAME_LEN == 255
\* cdc.h is not part of the sources; the protocol text gives 36 characters
CDC_UUID_LEN == 36
\* avrorouter.h of this version is not part of the sources.  The burst
\* limit is counted in the unit of block_size, which the model takes to be
\* one per record.
AVRO_DATA_BURST_SIZE == 2

(***************************************************************************)
(* Literals of the protocol.                                               *)
(***************************************************************************)
reg_uuid == <<"R","E","G","I","S","T","E","R"," ","U","U","I","D","=">>
type_key == <<"T","Y","P","E","=">>
type_avro == <<"A","V","R","O">>
type_json == <<"J","S","O","N">>
req_data == <<"R","E","Q","U","E","S","T","-","D","A","T","A">>
suffix_avro == <<".","a","v","r","o">>
suffix_first == <<".","0","0","0","0","0","1",".","a","v","r","o">>

\* the requests a client of the model sends
ReqRegisterJson == <<"R","E","G","I","S","T","E","R"," ","U","U","I","D","=","u","1",","," ","T","Y","P","E","=","J","S","O","N">>
ReqRegisterAvro == <<"R","E","G","I","S","T","E","R"," ","U","U","I","D","=","u","1",","," ","T","Y","P","E","=","A","V","R","O">>
ReqRegisterNoType == <<"R","E","G","I","S","T","E","R"," ","U","U","I","D","=","u","1">>
ReqDataStem == <<"R","E","Q","U","E","S","T","-","D","A","T","A"," ","d",".","t">>
ReqDataGtid == <<"R","E","Q","U","E","S","T","-","D","A","T","A"," ","d",".","t"," ","0","-","1","-","2">>
ReqDataEmpty == <<"R","E","Q","U","E","S","T","-","D","A","T","A">>
ReqUnknown == <<"H","E","L","L","O">>

Requests ==
    { ReqRegisterJson, ReqRegisterAvro, ReqRegisterNoType,
      ReqDataStem, ReqDataGtid, ReqDataEmpty, ReqUnknown }

\* the file the converter writes first: database d, table t, version 1
FirstFile == <<"d",".","t",".","0","0","0","0","0","1",".","a","v","r","o">>

(***************************************************************************)
(* C string functions.  Indices are 1-based; 0 stands for the NULL result. *)
(***************************************************************************)
Min(a, b) == IF a < b THEN a ELSE b

Max0(a) == IF a < 0 THEN 0 ELSE a

\* s + n: the string that starts n characters into s
Tail_n(s, n) == IF n >= Len(s) THEN <<>> ELSE SubSeq(s, n + 1, Len(s))

\* the first n characters of s
Head_n(s, n) == SubSeq(s, 1, Min(Max0(n), Len(s)))

strchr(s, c) ==
    IF \E i \in 1..Len(s) : s[i] = c
    THEN CHOOSE i \in 1..Len(s) : s[i] = c /\ \A j \in 1..(i - 1) : s[j] # c
    ELSE 0

strrchr(s, c) ==
    IF \E i \in 1..Len(s) : s[i] = c
    THEN CHOOSE i \in 1..Len(s) : s[i] = c /\ \A j \in (i + 1)..Len(s) : s[j] # c
    ELSE 0

IsAt(hay, needle, i) ==
    /\ i + Len(needle) - 1 <= Len(hay)
    /\ SubSeq(hay, i, i + Len(needle) - 1) = needle

strstr(hay, needle) ==
    IF \E i \in 1..Len(hay) : IsAt(hay, needle, i)
    THEN CHOOSE i \in 1..Len(hay) :
            IsAt(hay, needle, i) /\ \A j \in 1..(i - 1) : ~IsAt(hay, needle, j)
    ELSE 0

Digits == <<"0","1","2","3","4","5","6","7","8","9">>

isdigit(c) == \E i \in 1..10 : Digits[i] = c

isspace(c) == c \in {" ", "\t", "\n", "\r"}

DigitVal(c) == (CHOOSE i \in 1..10 : Digits[i] = c) - 1

\* the number of leading digits of s
RECURSIVE DigitRun(_)
DigitRun(s) ==
    IF s = <<>> \/ ~isdigit(s[1]) THEN 0 ELSE 1 + DigitRun(Tail(s))

RECURSIVE DigitsValue(_, _)
DigitsValue(s, acc) ==
    IF s = <<>> THEN acc ELSE DigitsValue(Tail(s), acc * 10 + DigitVal(s[1]))

\* strtol(s, &end, 10) on a string of digits: the value of the leading digits
strtol(s) == DigitsValue(SubSeq(s, 1, DigitRun(s)), 0)

\* "%06d" of a number below one million
Format06(n) ==
    [i \in 1..6 |-> Digits[((n \div (10 ^ (6 - i))) % 10) + 1]]

\* the number of leading white space characters of s
RECURSIVE SpaceRun(_)
SpaceRun(s) ==
    IF s = <<>> \/ ~isspace(s[1]) THEN 0 ELSE 1 + SpaceRun(Tail(s))

\* cut s at the first occurrence of c: *strchr(s, c) = '\0'
CutAt(s, c) == IF strchr(s, c) = 0 THEN s ELSE SubSeq(s, 1, strchr(s, c) - 1)

(***************************************************************************)
(* The client session (AVRO_CLIENT) and what it parses.                    *)
(***************************************************************************)
NoHandle == [open |-> FALSE, file |-> <<>>, block |-> 0, rec |-> 0]

NoGtid == [domain |-> 0, server_id |-> 0, seq |-> 0]

\* the session after router newSession: calloc'ed, state Unregistered
NewClient ==
    [ state |-> AVRO_CLIENT_UNREGISTERED,
      format |-> "UNDEFINED",
      uuid |-> <<>>,
      avro_binfile |-> <<>>,
      file_handle |-> NoHandle,
      requested_gtid |-> FALSE,
      gtid |-> NoGtid,
      cstate |-> 0 ]

\* flags of cstate
HasFlag(cstate, f) == (cstate \div f) % 2 = 1

SetFlag(cstate, f) == IF HasFlag(cstate, f) THEN cstate ELSE cstate + f

ClearFlag(cstate, f) == IF HasFlag(cstate, f) THEN cstate - f ELSE cstate

\* the format named by the four characters after TYPE=, "" if neither
RegistrationFormat(type) ==
    IF type = type_avro THEN "AVRO"
    ELSE IF type = type_json THEN "JSON"
    ELSE ""

\* a variant of registration_accepted that takes a request without TYPE=
registration_accepted_without_type(data_len, tmp_ptr, fmt) ==
    data_len > 0 /\ (tmp_ptr = 0 \/ fmt # "")

\* the tests of avro_client_do_registration on what follows the UUID: there
\* is data, it holds TYPE=, and the type is AVRO or JSON
registration_accepted(data_len, tmp_ptr, fmt) ==
    data_len > 0 /\ tmp_ptr # 0 /\ fmt # ""

\* avro_client_do_registration: ret is 1 for a successful registration
avro_client_do_registration(client, request) ==
    LET data_len0 == Len(request) - Len(reg_uuid)
    IN  IF strstr(request, reg_uuid) = 0
        THEN [ret |-> 0, client |-> client]
        ELSE
          LET uuid_len0 == Min(data_len0, CDC_UUID_LEN)
              uuid0 == Head_n(Tail_n(request, Len(reg_uuid)), uuid_len0)
              \* the strchr of line 172 starts at the terminator and finds nothing
              uuid == CutAt(CutAt(uuid0, ","), " ")
              data_len == IF Len(uuid) < uuid_len0
                          THEN data_len0 - (uuid_len0 - Len(uuid))
                          ELSE data_len0
              uuid_len == Len(uuid)
              \* sizeof(reg_uuid) counts the terminator
              rest == Tail_n(request, Len(reg_uuid) + 1 + uuid_len)
              tmp_ptr == strstr(rest, type_key)
              fmt == RegistrationFormat(Head_n(Tail_n(rest, tmp_ptr - 1 + Len(type_key)), 4))
              named == [client EXCEPT !.uuid = uuid]
          IN  IF registration_accepted(data_len, tmp_ptr, fmt)
              THEN [ret |-> 1,
                    client |-> [named EXCEPT !.state = AVRO_CLIENT_REGISTERED,
                                             !.format = fmt]]
              ELSE [ret |-> 0, client |-> named]

\* extract_gtid_request: the first three numbers found in start[0..len)
RECURSIVE extract_gtid_loop(_, _, _)
extract_gtid_loop(gtid, s, read) ==
    IF s = <<>> THEN gtid
    ELSE IF ~isdigit(s[1]) THEN extract_gtid_loop(gtid, Tail(s), read)
    ELSE LET value == strtol(s)
             next == CASE read = 0 -> [gtid EXCEPT !.domain = value]
                       [] read = 1 -> [gtid EXCEPT !.server_id = value]
                       [] read = 2 -> [gtid EXCEPT !.seq = value]
                       [] OTHER -> gtid
         IN  extract_gtid_loop(next, Tail_n(s, DigitRun(s)), read + 1)

extract_gtid_request(gtid, start, len) ==
    extract_gtid_loop(gtid, Head_n(start, len), 0)

\* get_avrofile_name: dest is the file name, rval the offset from file_ptr of
\* the text after the file name (0 for NULL)
get_avrofile_name(file_ptr, data_len) ==
    LET skipped == SpaceRun(file_ptr)
        avro_file0 == Head_n(Tail_n(file_ptr, skipped), data_len - skipped)
        cmd_sep == strchr(avro_file0, " ")
        avro_file == CutAt(avro_file0, " ")
        dot1 == strchr(avro_file, ".")
        after1 == Tail_n(avro_file, dot1)
        dot2 == strchr(after1, ".")
        versioned == dot1 # 0 /\ dot2 # 0 /\ Len(Tail_n(after1, dot2)) > 0
    IN  [ dest |-> Head_n(IF versioned THEN avro_file \o suffix_avro
                                       ELSE avro_file \o suffix_first,
                          AVRO_MAX_FILENAME_LEN - 1),
          rval |-> IF cmd_sep = 0 THEN 0 ELSE skipped + cmd_sep ]

\* the position print_next_filename stops at, walking left from before the
\* last dot to the dot before it or to the start of the buffer
RECURSIVE PrevDot(_, _)
PrevDot(buffer, ptr) ==
    IF ptr > 1 /\ buffer[ptr] # "." THEN PrevDot(buffer, ptr - 1) ELSE ptr

\* print_next_filename: the name of the next version of file, without the
\* directory; file itself if it has no suffix
print_next_filename(file) ==
    LET last == strrchr(file, ".")
        ptr == PrevDot(file, last - 1)
        filenum == strtol(Tail_n(file, ptr))
    IN  IF last <= 1 THEN file
        ELSE Head_n(file, ptr - 1) \o <<".">> \o Format06(filenum + 1) \o suffix_avro

(***************************************************************************)
(* The Avro files of avrodir and the reader of the maxavro library.  A     *)
(* file is a sequence of blocks, a block a sequence of rows, a row the     *)
(* GTID fields domain, server_id and sequence of its record.  A handle     *)
(* stands at a block and has read rec records of it.                       *)
(***************************************************************************)
file_in_dir(dir, file) == file \in DOMAIN dir

\* maxavro_file_open reads the header and the start of the first data block
maxavro_file_open(dir, file) ==
    IF file_in_dir(dir, file) /\ Len(dir[file]) > 0
    THEN [open |-> TRUE, file |-> file, block |-> 1, rec |-> 0]
    ELSE NoHandle

CurrentBlock(dir, h) == dir[h.file][h.block]

\* file->block_size, one unit per record
block_size(dir, h) == Len(CurrentBlock(dir, h))

\* no record of the file is left to read through h
AtEndOfFile(dir, h) ==
    h.block = Len(dir[h.file]) /\ h.rec = Len(CurrentBlock(dir, h))

maxavro_next_block(dir, h) ==
    IF h.block < Len(dir[h.file])
    THEN [ok |-> TRUE, h |-> [h EXCEPT !.block = h.block + 1, !.rec = 0]]
    ELSE [ok |-> FALSE, h |-> h]

\* maxavro_record_read_binary: the unread records of the current block, or
\* the next block when the current one has been read
maxavro_record_read_binary(dir, h) ==
    IF h.rec < Len(CurrentBlock(dir, h))
    THEN [ok |-> TRUE,
          rows |-> SubSeq(CurrentBlock(dir, h), h.rec + 1, Len(CurrentBlock(dir, h))),
          h |-> [h EXCEPT !.rec = Len(CurrentBlock(dir, h))]]
    ELSE IF maxavro_next_block(dir, h).ok
    THEN LET n == maxavro_next_block(dir, h).h
         IN  [ok |-> TRUE, rows |-> CurrentBlock(dir, n),
              h |-> [n EXCEPT !.rec = Len(CurrentBlock(dir, n))]]
    ELSE [ok |-> FALSE, rows |-> <<>>, h |-> h]

\* set_current_gtid
set_current_gtid(row) ==
    [domain |-> row.domain, server_id |-> row.server_id, seq |-> row.sequence]

\* stream_json: acc is the handle, the bytes counted, the rows the client
\* got, the GTID of the last row read and whether a write failed; connected
\* tells whether dcb->func.write succeeds
RECURSIVE stream_json_loop(_, _, _)
stream_json_loop(dir, acc, connected) ==
    LET blk == CurrentBlock(dir, acc.h)
        unread == SubSeq(blk, acc.h.rec + 1, Len(blk))
        \* the inner while stops after the first write that fails
        taken == IF connected THEN unread ELSE Head_n(unread, 1)
        h1 == [acc.h EXCEPT !.rec = acc.h.rec + Len(taken)]
        bytes == acc.bytes + block_size(dir, acc.h)
        nb == maxavro_next_block(dir, h1)
        acc1 == [ h |-> nb.h,
                  bytes |-> bytes,
                  sent |-> IF connected THEN acc.sent \o taken ELSE acc.sent,
                  gtid |-> IF taken = <<>> THEN acc.gtid
                           ELSE set_current_gtid(taken[Len(taken)]),
                  failed |-> acc.failed \/ (~connected /\ taken # <<>>) ]
    IN  IF nb.ok /\ bytes < AVRO_DATA_BURST_SIZE
        THEN stream_json_loop(dir, acc1, connected)
        ELSE acc1

stream_json(dir, h, gtid, connected) ==
    LET r == stream_json_loop(dir, [h |-> h, bytes |-> 0, sent |-> <<>>,
                                    gtid |-> gtid, failed |-> FALSE], connected)
    IN  [h |-> r.h, sent |-> r.sent, gtid |-> r.gtid, failed |-> r.failed,
         read_more |-> r.bytes >= AVRO_DATA_BURST_SIZE]

\* stream_binary: whole blocks, while the writes succeed and the burst
\* limit is not reached
RECURSIVE stream_binary_loop(_, _, _)
stream_binary_loop(dir, acc, connected) ==
    IF acc.rc > 0 /\ acc.bytes < AVRO_DATA_BURST_SIZE
    THEN LET bytes == acc.bytes + block_size(dir, acc.h)
             buffer == maxavro_record_read_binary(dir, acc.h)
         IN  stream_binary_loop(dir,
                [ h |-> buffer.h,
                  bytes |-> bytes,
                  rc |-> IF buffer.ok /\ connected THEN 1 ELSE 0,
                  sent |-> IF buffer.ok /\ connected
                           THEN acc.sent \o buffer.rows ELSE acc.sent,
                  failed |-> acc.failed \/ (buffer.ok /\ ~connected) ],
                connected)
    ELSE acc

stream_binary(dir, h, connected) ==
    LET r == stream_binary_loop(dir, [h |-> h, bytes |-> 0, rc |-> 1,
                                      sent |-> <<>>, failed |-> FALSE], connected)
    IN  [h |-> r.h, sent |-> r.sent, failed |-> r.failed,
         read_more |-> r.bytes >= AVRO_DATA_BURST_SIZE]

\* a variant of gtid_matches that does not compare the server id
gtid_matches_any_server(row, gtid) ==
    /\ row.sequence >= gtid.seq
    /\ row.domain = gtid.domain

\* the test of seek_to_gtid on one row
gtid_matches(row, gtid) ==
    /\ row.sequence >= gtid.seq
    /\ row.server_id = gtid.server_id
    /\ row.domain = gtid.domain

\* seek_to_gtid: reads on from h; the rows of a block from the first match
\* to the end of that block are sent at once; the result of send_row is
\* not looked at
RECURSIVE seek_to_gtid(_, _, _, _)
seek_to_gtid(dir, h, gtid, connected) ==
    LET blk == CurrentBlock(dir, h)
        hits == {i \in (h.rec + 1)..Len(blk) : gtid_matches(blk[i], gtid)}
        first == CHOOSE i \in hits : \A j \in hits : i <= j
        h1 == [h EXCEPT !.rec = Len(blk)]
        nb == maxavro_next_block(dir, h1)
    IN  IF hits # {}
        THEN [found |-> TRUE, h |-> h1,
              sent |-> IF connected THEN SubSeq(blk, first, Len(blk)) ELSE <<>>,
              failed |-> ~connected]
        ELSE IF nb.ok
        THEN seek_to_gtid(dir, nb.h, gtid, connected)
        ELSE [found |-> FALSE, h |-> h1, sent |-> <<>>, failed |-> FALSE]

\* a variant of stream_file_handle that opens the file at every call
stream_file_handle_reopened(client, dir) ==
    maxavro_file_open(dir, client.avro_binfile)

\* the handle avro_client_stream_data reads from: the open one, or a new
\* one on avro_binfile when there is none
stream_file_handle(client, dir) ==
    IF client.file_handle.open
    THEN client.file_handle
    ELSE maxavro_file_open(dir, client.avro_binfile)

\* avro_client_stream_data
avro_client_stream_data(client, dir, connected) ==
    LET h0 == stream_file_handle(client, dir)
        seeking == client.format = "JSON" /\ client.requested_gtid
        sk == IF seeking THEN seek_to_gtid(dir, h0, client.gtid, connected)
              ELSE [found |-> FALSE, h |-> h0, sent |-> <<>>, failed |-> FALSE]
        js == stream_json(dir, sk.h, client.gtid, connected)
        bn == stream_binary(dir, h0, connected)
    IN  IF client.avro_binfile = <<>>
        THEN [client |-> client, sent |-> <<>>, read_more |-> FALSE,
              failed |-> FALSE, reply |-> "ERR avro file not specified"]
        ELSE IF ~h0.open
        THEN \* the file could not be opened: does not happen in this model
             [client |-> client, sent |-> <<>>, read_more |-> FALSE,
              failed |-> FALSE, reply |-> ""]
        ELSE IF client.format = "JSON"
        THEN [client |-> [client EXCEPT
                            !.file_handle = js.h,
                            !.requested_gtid = client.requested_gtid /\ ~sk.found,
                            !.gtid = js.gtid],
              sent |-> sk.sent \o js.sent, read_more |-> js.read_more,
              failed |-> sk.failed \/ js.failed, reply |-> ""]
        ELSE IF client.format = "AVRO"
        THEN [client |-> [client EXCEPT !.file_handle = bn.h],
              sent |-> bn.sent, read_more |-> bn.read_more,
              failed |-> bn.failed, reply |-> ""]
        ELSE [client |-> [client EXCEPT !.file_handle = h0],
              sent |-> <<>>, read_more |-> FALSE, failed |-> FALSE, reply |-> ""]

\* rotate_avro_file: the session moves to filename; the schema it writes is
\* read by read_avro_json_schema
rotate_avro_file(client, dir, filename) ==
    [ client |-> [client EXCEPT !.avro_binfile = filename,
                                !.file_handle = maxavro_file_open(dir, filename)],
      preamble |-> [kind |-> "json", file |-> filename] ]

(***************************************************************************)
(* Request handling.  A handler result holds the session after the         *)
(* request, the return value, the reply written to the client (the format  *)
(* string and its argument), the schema preamble written, and whether the  *)
(* DCB was closed, a drain callback added and a write-ready event posted.  *)
(***************************************************************************)
NoReply == [msg |-> "", arg |-> <<>>]

NoPreamble == [kind |-> "", file |-> <<>>]

Result(client, ret, reply) ==
    [ client |-> client, ret |-> ret, reply |-> reply, preamble |-> NoPreamble,
      close |-> FALSE, callback |-> FALSE, event |-> FALSE ]

\* a variant of echo_reply that leaves the request out
echo_reply_bare(data) == [msg |-> "ECHO:", arg |-> <<>>]

\* the reply to a request that is no command
echo_reply(data) == [msg |-> "ECHO:", arg |-> data]

\* the schema sent first, by the format of the session
first_schema(client) ==
    IF client.format = "JSON" THEN [kind |-> "json", file |-> client.avro_binfile]
    ELSE IF client.format = "AVRO" THEN [kind |-> "binary", file |-> client.avro_binfile]
    ELSE NoPreamble

\* avro_client_process_command
avro_client_process_command(client, dir, data) ==
    LET command_ptr == strstr(data, req_data)
        file_ptr == Tail_n(data, command_ptr - 1 + Len(req_data))
        data_len == Len(data) - Len(req_data)
        name == get_avrofile_name(file_ptr, data_len)
        named == [client EXCEPT !.avro_binfile = name.dest]
        asked == IF name.rval # 0
                 THEN [named EXCEPT
                         !.requested_gtid = TRUE,
                         !.gtid = extract_gtid_request(client.gtid,
                                     Tail_n(file_ptr, name.rval), data_len - name.rval)]
                 ELSE named
    IN  IF command_ptr = 0
        THEN Result(client, 0, echo_reply(data))
        ELSE IF data_len <= 1
        THEN Result(client, 0, [msg |-> "ERR REQUEST-DATA with no data", arg |-> <<>>])
        ELSE IF file_in_dir(dir, asked.avro_binfile)
        THEN [Result(asked, 0, NoReply) EXCEPT !.preamble = first_schema(asked),
                                               !.callback = TRUE,
                                               !.event = TRUE]
        ELSE Result(asked, 0, [msg |-> "ERR NO-FILE File '%s' not found.",
                               arg |-> asked.avro_binfile])

\* a variant of handle_unregistered that leaves the state as it is when the
\* registration fails
handle_unregistered_state_kept(client, request) ==
    LET reg == avro_client_do_registration(client, request)
    IN  IF reg.ret = 0
        THEN [Result(reg.client, 0,
                     [msg |-> "ERR, code 12, msg: Registration failed", arg |-> <<>>])
              EXCEPT !.close = TRUE]
        ELSE Result([reg.client EXCEPT !.state = AVRO_CLIENT_REGISTERED], 0,
                    [msg |-> "OK", arg |-> <<>>])

\* a variant of handle_unregistered that does not close the DCB when the
\* registration fails
handle_unregistered_not_closed(client, request) ==
    LET reg == avro_client_do_registration(client, request)
    IN  IF reg.ret = 0
        THEN Result([reg.client EXCEPT !.state = AVRO_CLIENT_ERRORED], 0,
                    [msg |-> "ERR, code 12, msg: Registration failed", arg |-> <<>>])
        ELSE Result([reg.client EXCEPT !.state = AVRO_CLIENT_REGISTERED], 0,
                    [msg |-> "OK", arg |-> <<>>])

\* case AVRO_CLIENT_UNREGISTERED of avro_client_handle_request
handle_unregistered(client, request) ==
    LET reg == avro_client_do_registration(client, request)
    IN  IF reg.ret = 0
        THEN [Result([reg.client EXCEPT !.state = AVRO_CLIENT_ERRORED], 0,
                     [msg |-> "ERR, code 12, msg: Registration failed", arg |-> <<>>])
              EXCEPT !.close = TRUE]
        ELSE Result([reg.client EXCEPT !.state = AVRO_CLIENT_REGISTERED], 0,
                    [msg |-> "OK", arg |-> <<>>])

\* a variant of processing_state that moves on a REQUEST-DATA request only
processing_state_on_request_data(client, request) ==
    IF client.state = AVRO_CLIENT_REGISTERED /\ strstr(request, req_data) # 0
    THEN [client EXCEPT !.state = AVRO_CLIENT_REQUEST_DATA]
    ELSE client

\* the state with which a registered session processes a request
processing_state(client, request) ==
    IF client.state = AVRO_CLIENT_REGISTERED
    THEN [client EXCEPT !.state = AVRO_CLIENT_REQUEST_DATA]
    ELSE client

\* avro_client_handle_request with an Errored session treated as one that has
\* not registered
avro_client_handle_request_errored_registers(client, dir, request) ==
    IF client.state \in {AVRO_CLIENT_ERRORED, AVRO_CLIENT_UNREGISTERED}
    THEN handle_unregistered(client, request)
    ELSE IF client.state \in {AVRO_CLIENT_REGISTERED, AVRO_CLIENT_REQUEST_DATA}
    THEN avro_client_process_command(processing_state(client, request), dir, request)
    ELSE Result([client EXCEPT !.state = AVRO_CLIENT_ERRORED], 1, NoReply)

\* avro_client_handle_request
avro_client_handle_request(client, dir, request) ==
    IF client.state = AVRO_CLIENT_ERRORED
    THEN Result(client, 1, NoReply)
    ELSE IF client.state = AVRO_CLIENT_UNREGISTERED
    THEN handle_unregistered(client, request)
    ELSE IF client.state \in {AVRO_CLIENT_REGISTERED, AVRO_CLIENT_REQUEST_DATA}
    THEN avro_client_process_command(processing_state(client, request), dir, request)
    ELSE Result([client EXCEPT !.state = AVRO_CLIENT_ERRORED], 1, NoReply)

\* a request that names a file: it sets avro_binfile
NamesFile(request) ==
    strstr(request, req_data) # 0 /\ Len(request) - Len(req_data) > 1

\* the request reaches avro_client_process_command and names a file
SetsFile(c, request) ==
    /\ c.state \in {AVRO_CLIENT_REGISTERED, AVRO_CLIENT_REQUEST_DATA}
    /\ NamesFile(request)

(***************************************************************************)
(* The conversion driver: avro_read_all_events and what it calls.          *)
(*                                                                         *)
(* A binlog file is the sequence of its events, which start right after    *)
(* the magic number; an event is named by its type.  Every row event is    *)
(* taken together with the table map event before it, and the files are    *)
(* well formed: next_pos of an event is its offset plus its size.          *)
(***************************************************************************)
MaxBinlogEvents == 3

MaxRestarts == 1

row_target == 2

trx_target == 2

BINLOG_MAGIC_SIZE == 4

BINLOG_EVENT_HDR_LEN == 19

AVRO_OK == 0

AVRO_LAST_FILE == 1

AVRO_OPEN_TRANSACTION == 2

AVRO_BINLOG_ERROR == 3

\* the event types the driver tells apart: MARIADB10_GTID_EVENT with
\* flags 0, a row event, XID_EVENT, QUERY_EVENT with BEGIN, QUERY_EVENT
\* with COMMIT, ROTATE_EVENT and STOP_EVENT
EventTypes == {"GTID", "ROWS", "XID", "BEGIN", "COMMIT", "ROTATE", "STOP"}

\* the size of the payload of an event: the sequence number, domain and
\* flags of a GTID event, the transaction id of an XID event, the post
\* header and statement of a query event, the position and file name of a
\* rotate event, the table id, flags and one row image of a row event
PayloadLen(type) ==
    CASE type = "GTID"   -> 13
      [] type = "ROWS"   -> 12
      [] type = "XID"    -> 8
      [] type = "BEGIN"  -> 19
      [] type = "COMMIT" -> 20
      [] type = "ROTATE" -> 21
      [] type = "STOP"   -> 0

event_size(type) == BINLOG_EVENT_HDR_LEN + PayloadLen(type)

RECURSIVE FileSize(_)
\* the size of a binlog file, which is its end-of-file offset
FileSize(events) ==
    IF events = <<>> THEN BINLOG_MAGIC_SIZE
    ELSE FileSize(Head_n(events, Len(events) - 1)) + event_size(events[Len(events)])

\* the offset of the header of the i-th event of a file
HeaderStart(events, i) == FileSize(Head_n(events, i - 1))

HeaderStarts(events) == {HeaderStart(events, i) : i \in 1..Len(events)}

\* the index of the event whose header starts at pos, 0 if there is none
EventAt(events, pos) ==
    IF pos \in HeaderStarts(events)
    THEN CHOOSE i \in 1..Len(events) : HeaderStart(events, i) = pos
    ELSE 0

RECURSIVE SeqsUpTo(_, _)
\* the sequences over S of at most n elements
SeqsUpTo(S, n) ==
    IF n = 0 THEN {<<>>}
    ELSE SeqsUpTo(S, n - 1)
         \cup {Append(s, x) : s \in {q \in SeqsUpTo(S, n - 1) : Len(q) = n - 1}, x \in S}

\* the binlog files are named by their sequence number; the name that
\* follows a name has the next number
blr_file_get_next_binlogname(binlog_name) == binlog_name + 1

binlog_next_file_exists(dir, binlog_name) ==
    blr_file_get_next_binlogname(binlog_name) \in DOMAIN dir

\* the AVRO_INSTANCE of a router that has converted nothing: the first
\* binlog file, read from its first event.  writers holds the records
\* appended to the Avro writers and not flushed; a record is named by the
\* file and the offset of its row event.
NoBinlogGtid == [file |-> 0, pos |-> 0]

NewRouter ==
    [ binlog_name |-> 1, binlog_position |-> BINLOG_MAGIC_SIZE,
      current_pos |-> BINLOG_MAGIC_SIZE, gtid |-> NoBinlogGtid,
      trx_count |-> 0, row_count |-> 0, writers |-> <<>> ]

\* the locals of avro_read_all_events, the return value of its last call
\* and what ended that call
NoHdr == [event_type |-> "", event_size |-> 0, next_pos |-> 0]

NotReading(ret, exit) ==
    [ pc |-> "idle", pos |-> 0, last_known_commit |-> 0, pending_transaction |-> 0,
      rotate_seen |-> FALSE, stop_seen |-> FALSE, next_binlog |-> 0,
      hdr |-> NoHdr, ret |-> ret, exit |-> exit ]

\* the locals at the top of the loop of a new call
Reading(pos) ==
    [ pc |-> "header", pos |-> pos, last_known_commit |-> 4, pending_transaction |-> 0,
      rotate_seen |-> FALSE, stop_seen |-> FALSE, next_binlog |-> 0,
      hdr |-> NoHdr, ret |-> AVRO_OK, exit |-> "" ]

\* a file of the cache directory that does not exist
NoFile == [position |-> 0, gtid |-> NoBinlogGtid, file |-> 0, lines |-> -1]

\* a variant of checkpoint_position that points behind the event header
checkpoint_position_past_header(r) == r.current_pos + BINLOG_EVENT_HDR_LEN

\* the position avro_save_conversion_state prints
checkpoint_position(r) == r.current_pos

\* the text avro_save_conversion_state prints to avro-conversion.ini.tmp,
\* of which the first lines key lines reach the file: all three when the
\* writes succeed, fewer when a write fails, which the function does not
\* test
conversion_state(r, lines) ==
    [ position |-> IF lines >= 1 THEN checkpoint_position(r) ELSE 0,
      gtid |-> IF lines >= 2 THEN r.gtid ELSE NoBinlogGtid,
      file |-> IF lines >= 3 THEN r.binlog_name ELSE 0,
      lines |-> lines ]

\* avro_load_conversion_state with conv_state_handler: without a file the
\* router is left as it is, and every key of the file sets its field
avro_load_conversion_state(r, ini) ==
    IF ini = NoFile THEN r
    ELSE [r EXCEPT !.current_pos = IF ini.lines >= 1 THEN ini.position ELSE @,
                   !.gtid = IF ini.lines >= 2 THEN ini.gtid ELSE @,
                   !.binlog_name = IF ini.lines >= 3 THEN ini.file ELSE @]

\* rotate_to_file
rotate_to_file(r, next_binlog) ==
    [r EXCEPT !.binlog_name = next_binlog, !.binlog_position = 4, !.current_pos = 4]

\* a variant of rotate_to_next_file_if_exists that goes to the next file
\* after a stop event whether the file exists or not
rotate_to_next_file_after_stop(r, dir, stop_seen) ==
    IF binlog_next_file_exists(dir, r.binlog_name) \/ stop_seen
    THEN [router |-> rotate_to_file(r, blr_file_get_next_binlogname(r.binlog_name)),
          rval |-> AVRO_OK]
    ELSE [router |-> r, rval |-> AVRO_LAST_FILE]

\* rotate_to_next_file_if_exists
rotate_to_next_file_if_exists(r, dir, stop_seen) ==
    IF binlog_next_file_exists(dir, r.binlog_name)
    THEN [router |-> [r EXCEPT
                        !.binlog_name = blr_file_get_next_binlogname(r.binlog_name),
                        !.binlog_position = 4, !.current_pos = 4],
          rval |-> AVRO_OK]
    ELSE [router |-> r, rval |-> AVRO_LAST_FILE]

\* a variant of flush_due that holds at every XID event
flush_due_at_every_commit(r) == TRUE

\* the test of the XID branch: a counter has reached its target
flush_due(r) == r.row_count >= row_target \/ r.trx_count >= trx_target

\* handle_query_event, the value it leaves in pending_transaction
handle_query_event(pending_transaction, sql) ==
    IF sql = "BEGIN" THEN 1
    ELSE IF sql = "COMMIT" THEN 0
    ELSE pending_transaction

\* the pread of the event header at pos: 19 for a whole header, 0 at the
\* end of the file, -1 for a read that fails or comes short
pread_header(events, pos, fails) ==
    IF fails THEN -1
    ELSE IF pos >= FileSize(events) THEN 0
    ELSE BINLOG_EVENT_HDR_LEN

\* the header at pos; the bytes in the middle of an event are no header of
\* a known event type
header_at(events, pos) ==
    IF EventAt(events, pos) = 0 THEN [NoHdr EXCEPT !.event_type = "INVALID"]
    ELSE [event_type |-> events[EventAt(events, pos)],
          event_size |-> event_size(events[EventAt(events, pos)]),
          next_pos |-> pos + event_size(events[EventAt(events, pos)])]

\* the return from the loop when the header was not read: the end of the
\* file or a failed read
header_not_read(r, l, dir, n) ==
    LET at == [r EXCEPT !.current_pos = l.pos]
        next == rotate_to_next_file_if_exists(at, dir, l.stop_seen)
        exit == IF n = 0 THEN "eof" ELSE "read"
    IN  IF l.pending_transaction > 0
        THEN [router |-> at, loc |-> NotReading(AVRO_OPEN_TRANSACTION, exit)]
        ELSE IF n # 0
        THEN [router |-> at, loc |-> NotReading(AVRO_BINLOG_ERROR, exit)]
        ELSE IF l.rotate_seen
        THEN [router |-> rotate_to_file(at, l.next_binlog),
              loc |-> NotReading(AVRO_OK, exit)]
        ELSE [router |-> next.router, loc |-> NotReading(next.rval, exit)]

\* the return from the loop for an event that cannot be used: an invalid
\* event type or a payload that was not read
event_error(r, l, exit) ==
    [ router |-> [r EXCEPT !.binlog_position = l.last_known_commit,
                           !.current_pos = l.pos],
      loc |-> NotReading(AVRO_BINLOG_ERROR, exit) ]

\* the checks of next_pos without the two comparisons with pos
next_pos_accepted_when_positive(hdr, pos) == hdr.next_pos > 0

\* the sanity checks of pos and next_pos at the end of the loop body,
\* whether the loop goes on to the next event
next_pos_accepted(hdr, pos) ==
    /\ ~(hdr.next_pos > 0 /\ hdr.next_pos < pos)
    /\ ~(hdr.next_pos > 0 /\ hdr.next_pos # pos + hdr.event_size)
    /\ hdr.next_pos > 0

\* the end of the loop body: after the sanity checks pos and current_pos
\* go to the next event; an event that fails them ends the loop
next_event(r, l) ==
    IF next_pos_accepted(l.hdr, l.pos)
    THEN [ router |-> [r EXCEPT !.current_pos = l.hdr.next_pos],
           loc |-> [l EXCEPT !.pc = "header", !.pos = l.hdr.next_pos] ]
    ELSE [ router |-> r, loc |-> NotReading(AVRO_BINLOG_ERROR, "next_pos") ]

\* the loop body from the test of pending_transaction to the branch of the
\* event type; the flush of the XID branch is left to the steps after it
dispatch_event(r, l) ==
    LET type == l.hdr.event_type
        l1 == [l EXCEPT !.last_known_commit =
                           IF l.pending_transaction = 0 THEN l.pos ELSE @]
        trx_after == handle_query_event(l.pending_transaction, type)
    IN  CASE type = "STOP" -> [router |-> r, loc |-> [l1 EXCEPT !.stop_seen = TRUE]]
          [] type = "ROWS" ->
                [router |-> [r EXCEPT !.row_count = @ + 1,
                                      !.writers = Append(@, <<r.binlog_name, l.pos>>)],
                 loc |-> l1]
          [] type = "ROTATE" ->
                [router |-> r,
                 loc |-> [l1 EXCEPT !.rotate_seen = TRUE,
                            !.next_binlog = blr_file_get_next_binlogname(r.binlog_name)]]
          [] type = "GTID" ->
                [router |-> [r EXCEPT !.gtid = [file |-> r.binlog_name, pos |-> l.pos]],
                 loc |-> [l1 EXCEPT !.pending_transaction = 1]]
          [] type \in {"BEGIN", "COMMIT"} ->
                [router |-> [r EXCEPT !.trx_count =
                                IF trx_after # l.pending_transaction THEN @ + 1 ELSE @],
                 loc |-> [l1 EXCEPT !.pending_transaction = trx_after]]
          [] type = "XID" ->
                [router |-> [r EXCEPT !.trx_count = @ + 1],
                 loc |-> [l1 EXCEPT !.pending_transaction = 0]]

\* the end of the flush of the XID branch: the counters start again
counters_reset(r) == [r EXCEPT !.row_count = 0, !.trx_count = 0]

\* the cache directory before the first conversion
NoStore == [ini |-> NoFile, tmp |-> NoFile, avro |-> <<>>]

NoHistory == [restarts |-> 0, steps |-> <<>>, open_file |-> 0, open_pos |-> 0]

(***************************************************************************)
(* The handling of the events: the table maps, the row events and the DDL  *)
(* statements.  An event of the stream is a record of its type, the table  *)
(* it names, its table id, its number of columns and its number of rows;   *)
(* the fields that its type does not have are 0 or "".  A record of an     *)
(* Avro file is named by its event_type.                                   *)
(***************************************************************************)
\* events of the stream that are read
MaxStreamEvents == 3

\* the numbers of columns of a table and of rows of a row event
ColumnCounts == {1, 2}

RowCounts == {1, 2}

MAX_MAPPED_TABLES == 1024

\* the database.table names; the server gives every table an id of up to
\* six bytes, and the two ids differ by a multiple of the size of
\* active_maps
Tables == {"d.t1", "d.t2"}

TableId(table) == IF table = "d.t1" THEN 1 ELSE 1 + 8 * MAX_MAPPED_TABLES

\* the server gives a table a new id when it opens the table again: the
\* ids that a table can have.  The second id of d.t2 differs from the
\* first id of d.t1 by the number of slots of active_maps
TableIds(table) ==
    {TableId(table), IF table = "d.t1" THEN 2 ELSE 1 + MAX_MAPPED_TABLES}

\* the index into active_maps: the id modulo sizeof(router->active_maps),
\* which is MAX_MAPPED_TABLES pointers of eight bytes
active_maps_slot(id) == id % (8 * MAX_MAPPED_TABLES)

Slots == {active_maps_slot(id) : id \in UNION {TableIds(t) : t \in Tables}}

NoMap == [id |-> 0, columns |-> 0, version |-> 0, table |-> "", freed |-> FALSE]

\* the hashtables and the slot array of a router that has read nothing:
\* created_tables holds the version of the TABLE_CREATE of a table and
\* open_tables the version of its open AVRO_TABLE, 0 where there is none;
\* records holds what was appended to the Avro files of a table and
\* ddl_list the statements of table-ddl.list
NoTables ==
    [ created_tables |-> [t \in Tables |-> 0],
      table_maps |-> [t \in Tables |-> NoMap],
      active_maps |-> [s \in Slots |-> NoMap],
      open_tables |-> [t \in Tables |-> 0],
      records |-> [t \in Tables |-> <<>>],
      ddl_list |-> <<>> ]

NoEvent == [type |-> "", table |-> "", id |-> 0, columns |-> 0, rows |-> 0]

RowEventTypes == {"WRITE_ROWS", "UPDATE_ROWS", "DELETE_ROWS"}

\* the events that can follow: a row event belongs to the table map event
\* that was read last and has its table id and its number of columns
StreamEvents(map_event) ==
    {[NoEvent EXCEPT !.type = ty] : ty \in {"GTID", "XID"}}
    \cup {[NoEvent EXCEPT !.type = ty, !.table = t] :
             ty \in {"CREATE", "ALTER"}, t \in Tables}
    \cup {[NoEvent EXCEPT !.type = "TABLE_MAP", !.table = t, !.id = TableId(t),
                          !.columns = c] : t \in Tables, c \in ColumnCounts}
    \cup {[map_event EXCEPT !.type = ty, !.rows = n] :
             ty \in IF map_event = NoEvent THEN {} ELSE RowEventTypes,
             n \in RowCounts}

\* the events of a stream whose tables are opened again by the server:
\* the CREATE TABLE statements, the table map events with every id of a
\* table, and the row events of the table map event read last
TableEvents(map_event) ==
    {[NoEvent EXCEPT !.type = "CREATE", !.table = t] : t \in Tables}
    \cup UNION {{[NoEvent EXCEPT !.type = "TABLE_MAP", !.table = t, !.id = id,
                                 !.columns = c] : id \in TableIds(t), c \in ColumnCounts}
                   : t \in Tables}
    \cup {[map_event EXCEPT !.type = ty, !.rows = n] :
             ty \in IF map_event = NoEvent THEN {} ELSE RowEventTypes,
             n \in RowCounts}

\* a variant of get_event_type that takes an update event for a write
\* event
get_event_type_update_as_write(event_type) ==
    IF event_type = "DELETE_ROWS" THEN "delete" ELSE "insert"

\* get_event_type
get_event_type(event_type) ==
    CASE event_type = "WRITE_ROWS"  -> "insert"
      [] event_type = "UPDATE_ROWS" -> "update_before"
      [] event_type = "DELETE_ROWS" -> "delete"

\* the bytes of a row event before its first row image: the table id, the
\* flags, the number of columns and the bitmap of the columns present, of
\* which an update event has two
row_images_offset(event_type) == IF event_type = "UPDATE_ROWS" THEN 11 ELSE 10

\* the bytes of the row images of one row: a byte for every column, twice
\* in an update event
row_image_bytes(event_type, columns) ==
    IF event_type = "UPDATE_ROWS" THEN 2 * columns ELSE columns

\* the size of the payload of an event of the stream
stream_payload_len(ev) ==
    CASE ev.type \in RowEventTypes ->
            row_images_offset(ev.type) + ev.rows * row_image_bytes(ev.type, ev.columns)
      [] ev.type = "TABLE_MAP" -> 10 + ev.columns
      [] ev.type \in {"CREATE", "ALTER"} -> 40
      [] OTHER -> PayloadLen(ev.type)

\* what can be wrong with the header of an event
HeaderFaults ==
    {"none", "event_type", "size_0", "size_18",
     "next_pos_0", "next_pos_back", "next_pos_same", "next_pos_off"}

\* the REP_HEADER that avro_read_all_events fills from the header at pos
\* of event ev
rep_header(ev, pos, fault) ==
    [ event_type |-> IF fault = "event_type" THEN "INVALID" ELSE ev.type,
      event_size |-> CASE fault = "size_0" -> 0
                       [] fault = "size_18" -> 18
                       [] OTHER -> BINLOG_EVENT_HDR_LEN + stream_payload_len(ev),
      next_pos |-> CASE fault = "next_pos_0" -> 0
                     [] fault = "next_pos_back" -> pos - 1
                     [] fault = "next_pos_same" -> pos
                     [] fault = "next_pos_off" ->
                            pos + BINLOG_EVENT_HDR_LEN + stream_payload_len(ev) + 1
                     [] OTHER -> pos + BINLOG_EVENT_HDR_LEN + stream_payload_len(ev) ]

\* the test of the header before the payload is read: the event type is
\* at most MAX_EVENT_TYPE_MARIADB10 and the event size is not 0
header_accepted(hdr) == hdr.event_type # "INVALID" /\ hdr.event_size > 0

\* the order of two unsigned 32-bit numbers, each given by the signed
\* number of the same 32 bits
unsigned_less(a, b) == IF (a < 0) = (b < 0) THEN a < b ELSE b < 0

\* read_event_data, whether it returns a buffer: event_size - 19 is an
\* unsigned 32-bit number, pread reads that many bytes or the avail bytes
\* that the file has after the header, and the int it returns is compared
\* with the unsigned number, bit for bit
read_event_data(hdr, avail, fails) ==
    LET size == hdr.event_size - BINLOG_EVENT_HDR_LEN
        n == IF fails = "pread" THEN -1
             ELSE IF unsigned_less(avail, size) THEN avail ELSE size
    IN  fails # "alloc" /\ n = size

\* whether read_event_data writes the terminating 0 outside the buffer of
\* event_size - 19 + 1 bytes it has allocated
terminator_out_of_bounds(hdr) ==
    ~unsigned_less(hdr.event_size - BINLOG_EVENT_HDR_LEN,
                   hdr.event_size - BINLOG_EVENT_HDR_LEN + 1)

\* handle_table_map_event; fails is the failure of table_map_alloc, of
\* json_new_schema_from_table or of avro_table_alloc
handle_table_map_event(t, ev, fails) ==
    LET create == t.created_tables[ev.table]
        old == t.table_maps[ev.table]
        map == [id |-> ev.id, columns |-> ev.columns, version |-> create,
                table |-> ev.table, freed |-> FALSE]
        cleared == IF old # NoMap
                   THEN [t.active_maps EXCEPT ![active_maps_slot(old.id)] = NoMap]
                   ELSE t.active_maps
    IN  IF create # 0 /\ (old = NoMap \/ old.version # create) /\ ~fails
        THEN [t EXCEPT !.table_maps[ev.table] = map,
                       !.open_tables[ev.table] = map.version,
                       !.active_maps = [cleared EXCEPT ![active_maps_slot(map.id)] = map]]
        ELSE t

RECURSIVE row_records(_, _, _, _)
\* the loop of handle_row_event over the row images: consumed is ptr -
\* start, size is hdr->event_size - BINLOG_EVENT_HDR_LEN
row_records(event_type, columns, consumed, size) ==
    IF consumed < size
    THEN (IF get_event_type(event_type) = "update_before"
          THEN <<"update_before", "update_after">>
          ELSE <<get_event_type(event_type)>>)
         \o row_records(event_type, columns,
                        consumed + row_image_bytes(event_type, columns), size)
    ELSE <<>>

\* a variant of handle_row_event that does not compare the column counts
handle_row_event_any_columns(t, hdr, ev) ==
    LET map == t.active_maps[active_maps_slot(ev.id)]
    IN  IF map # NoMap /\ t.open_tables[map.table] # 0
        THEN [t EXCEPT !.records[map.table] =
                 @ \o row_records(hdr.event_type, map.columns,
                                  row_images_offset(hdr.event_type),
                                  hdr.event_size - BINLOG_EVENT_HDR_LEN)]
        ELSE t

\* handle_row_event: the map is the one in the slot of the table id
handle_row_event(t, hdr, ev) ==
    LET map == t.active_maps[active_maps_slot(ev.id)]
    IN  IF map # NoMap /\ t.open_tables[map.table] # 0 /\ ev.columns = map.columns
        THEN [t EXCEPT !.records[map.table] =
                 @ \o row_records(hdr.event_type, map.columns,
                                  row_images_offset(hdr.event_type),
                                  hdr.event_size - BINLOG_EVENT_HDR_LEN)]
        ELSE t

\* a variant of save_and_replace_table_create that replaces the entry
\* before the statement is saved
save_after_replace_table_create(t, table, fails) ==
    [t EXCEPT !.ddl_list = IF fails THEN @ ELSE Append(@, table),
              !.table_maps[table] = NoMap,
              !.created_tables[table] = 1]

\* save_and_replace_table_create: the statement goes to table-ddl.list,
\* the map of the table leaves table_maps, which owns it, and the new
\* TABLE_CREATE takes the place of the old one; active_maps is left as it
\* is, so that a slot that holds the map holds a freed one
save_and_replace_table_create(t, table, fails) ==
    IF fails THEN t
    ELSE [t EXCEPT !.ddl_list = Append(@, table),
                   !.table_maps[table] = NoMap,
                   !.active_maps =
                       [s \in Slots |->
                          IF @[s] # NoMap /\ @[s] = t.table_maps[table]
                          THEN [@[s] EXCEPT !.freed = TRUE] ELSE @[s]],
                   !.created_tables[table] = 1]

\* the branch of handle_query_event for an ALTER TABLE statement
alter_table(t, table) ==
    IF t.created_tables[table] # 0
    THEN [t EXCEPT !.created_tables[table] = @ + 1]
    ELSE t

\* the branch of the event type in avro_read_all_events for the events of
\* the stream
stream_dispatch(r, l, t, ev, fails) ==
    LET l1 == [l EXCEPT !.last_known_commit =
                           IF l.pending_transaction = 0 THEN l.pos ELSE @]
    IN  CASE l.hdr.event_type = "TABLE_MAP" ->
                [router |-> r, loc |-> l1, tbl |-> handle_table_map_event(t, ev, fails)]
          [] l.hdr.event_type \in RowEventTypes ->
                [router |-> [r EXCEPT !.row_count = @ + 1], loc |-> l1,
                 tbl |-> handle_row_event(t, l.hdr, ev)]
          [] l.hdr.event_type = "CREATE" ->
                [router |-> r, loc |-> l1,
                 tbl |-> save_and_replace_table_create(t, ev.table, fails)]
          [] l.hdr.event_type = "ALTER" ->
                [router |-> r, loc |-> l1, tbl |-> alter_table(t, ev.table)]
          [] OTHER ->
                [router |-> dispatch_event(r, l).router,
                 loc |-> dispatch_event(r, l).loc, tbl |-> t]

\* whether the handler of the event reads what is no valid memory: the map
\* of the slot was freed, or the payload is shorter than the header says
reads_invalid_memory(t, hdr, ev) ==
    \/ /\ hdr.event_type \in RowEventTypes
       /\ t.active_maps[active_maps_slot(ev.id)].freed
    \/ /\ hdr.event_size < BINLOG_EVENT_HDR_LEN
       /\ hdr.event_type # "XID"

\* whether the handler of the event reads or writes a slot that is outside
\* the MAX_MAPPED_TABLES slots of active_maps
outside_active_maps(t, hdr, ev, fails) ==
    \/ /\ hdr.event_type \in RowEventTypes
       /\ active_maps_slot(ev.id) >= MAX_MAPPED_TABLES
    \/ /\ hdr.event_type = "TABLE_MAP"
       /\ handle_table_map_event(t, ev, fails) # t
       /\ \/ active_maps_slot(ev.id) >= MAX_MAPPED_TABLES
          \/ active_maps_slot(t.table_maps[ev.table].id) >= MAX_MAPPED_TABLES

\* what has been read of the stream: the number of events, the table map
\* event read last, the event at hand and what became of it
NoStream == [events |-> 0, map_event |-> NoEvent, ev |-> NoEvent, outcome |-> ""]

(***************************************************************************)
(* The data block of an Avro file that is written: values are added to     *)
(* the block in memory, maxavro_datablock_finalize writes the block to     *)
(* the file.  The file is the stream of its bytes, of which the size is    *)
(* kept; ftruncate and fseek, whose results the function does not test,    *)
(* do what they are called for.                                            *)
(***************************************************************************)
\* bytes of data in a block
MaxBlockBytes == 3

\* calls of maxavro_datablock_finalize
MaxFinalizes == 2

SYNC_MARKER_SIZE == 16

\* the buffersize that maxavro_datablock_allocate is called with
AllocatedBufferSize == 10

\* the bytes of the encoding of an integer: seven bits of the zigzag value
\* a byte
maxavro_integer_length(val) == IF val < 64 THEN 1 ELSE 2

\* the block that maxavro_datablock_allocate returns with its file, and
\* the last call of maxavro_datablock_finalize: the position it has stored,
\* the write that failed (0 for none), the size the file had right after
\* that write, the return value, and the number of the call.  allocated is
\* the size of the object that block->buffer points to, -1 once it was
\* freed; last is the call made last and crashed whether the process has
\* stopped
NewBlock ==
    [ records |-> 0, datasize |-> 0, buffersize |-> AllocatedBufferSize,
      allocated |-> AllocatedBufferSize, last |-> "allocate", crashed |-> FALSE,
      avrofile |-> 0,
      finalize |-> [pos |-> 0, failed |-> 0, reached |-> 0, rval |-> TRUE, calls |-> 0] ]

\* the sizes of the four writes of maxavro_datablock_finalize
finalize_writes(b) ==
    << maxavro_integer_length(b.records), maxavro_integer_length(b.datasize),
       b.datasize, SYNC_MARKER_SIZE >>

RECURSIVE written_before(_, _)
\* the bytes of the writes before the k-th
written_before(writes, k) ==
    IF k <= 1 THEN 0 ELSE written_before(writes, k - 1) + writes[k - 1]

\* a variant of file_truncated that leaves the file as it is
file_not_truncated(size, pos) == size

\* the size of the file after ftruncate(fd, pos) and fseek to the end
file_truncated(size, pos) == pos

\* maxavro_datablock_finalize; failed is the write that fails, 0 if none
\* does, and partial the number of its bytes that are in the file
maxavro_datablock_finalize(b, failed, partial) ==
    LET pos == b.avrofile
        writes == finalize_writes(b)
        reached == IF failed = 0 THEN pos + written_before(writes, 5)
                   ELSE pos + written_before(writes, failed) + partial
        call == [pos |-> pos, failed |-> failed, reached |-> reached,
                 rval |-> failed = 0, calls |-> b.finalize.calls + 1]
    IN  IF failed # 0
        THEN [b EXCEPT !.avrofile = file_truncated(reached, pos), !.finalize = call,
                       !.last = "finalize"]
        ELSE [b EXCEPT !.avrofile = reached, !.buffersize = 0, !.records = 0,
                       !.finalize = call, !.last = "finalize"]

\* the length of a string that is longer than twice the buffer
LongString == 2 * AllocatedBufferSize + 1

\* the values that are appended to a block
BlockValues ==
    {[kind |-> k, len |-> 0] : k \in {"integer", "float", "double"}}
    \cup {[kind |-> "string", len |-> n] : n \in {1, LongString}}

\* the bytes that maxavro_datablock_add_* wants to be free in the buffer
bytes_wanted(v) ==
    CASE v.kind = "integer" -> 9
      [] v.kind = "string"  -> 9 + v.len
      [] v.kind = "float"   -> 4
      [] v.kind = "double"  -> 8

\* the bytes of the encoding of the value: an integer of one byte, a
\* string with its length before it, a float, a double
bytes_encoded(v) ==
    CASE v.kind = "integer" -> maxavro_integer_length(1)
      [] v.kind = "string"  -> maxavro_integer_length(v.len) + v.len
      [] v.kind = "float"   -> 4
      [] v.kind = "double"  -> 8

\* what realloc can do: give a new object, or return NULL and leave the
\* old one; asked for 0 bytes it can also free the old object and return
\* NULL, as glibc does, or return an object of no bytes
realloc_outcomes(size) ==
    IF size = 0 THEN {"null", "freed", "empty"} ELSE {"new", "null"}

\* reallocate_datablock
reallocate_datablock(b, outcome) ==
    CASE outcome = "null"  -> [block |-> b, ok |-> FALSE]
      [] outcome = "freed" -> [block |-> [b EXCEPT !.allocated = -1], ok |-> FALSE]
      [] OTHER -> [block |-> [b EXCEPT !.allocated = 2 * b.buffersize,
                                       !.buffersize = 2 * b.buffersize],
                   ok |-> TRUE]

\* maxavro_datablock_add_integer, _string, _float and _double: the buffer
\* grows once if the bytes wanted do not fit, then the value is encoded at
\* buffer + datasize
maxavro_datablock_add(b, v, outcome) ==
    LET grows == b.datasize + bytes_wanted(v) >= b.buffersize
        r == IF grows THEN reallocate_datablock(b, outcome)
             ELSE [block |-> b, ok |-> TRUE]
    IN  IF ~r.ok
        THEN [r.block EXCEPT !.last = "add false"]
        ELSE [r.block EXCEPT !.datasize = @ + bytes_encoded(v), !.last = "add true"]

\* whether the call passes a freed buffer to realloc or encodes the value
\* past the end of the buffer
add_invalid_memory(b, v, outcome) ==
    \/ /\ b.datasize + bytes_wanted(v) >= b.buffersize
       /\ b.allocated < 0
    \/ /\ maxavro_datablock_add(b, v, outcome).last = "add true"
       /\ b.datasize + bytes_encoded(v)
             > maxavro_datablock_add(b, v, outcome).allocated

(***************************************************************************)
(* The row images of an UPDATE rows event.  The columns are numbered from  *)
(* 0; a bitmap is a byte whose bit i stands for column i; every column     *)
(* holds a one-byte integer, so the value of a column is one byte of the   *)
(* image.  An image is its null bitmap followed by the values of the       *)
(* columns that its column bitmap names.                                   *)
(***************************************************************************)
\* the number of columns of the table
RowColumns == 2

Columns == 0..(RowColumns - 1)

\* the values of a column in the rows of the master
ColumnValues == {1, 2}

\* the bytes that a read outside the event may find
AnyBytes == 0..3

\* a column bitmap of the event
Bitmaps == 0..((2 ^ RowColumns) - 1)

\* bit_is_set
bit_is_set(byte, current_column) ==
    CASE current_column = 0 -> byte % 2 = 1
      [] current_column = 1 -> (byte \div 2) % 2 = 1
      [] current_column = 2 -> (byte \div 4) % 2 = 1
      [] OTHER -> (byte \div 8) % 2 = 1

RECURSIVE image_values(_, _, _)
\* the values of the columns from column i on that the bitmap names
image_values(values, bitmap, i) ==
    IF i >= RowColumns THEN <<>>
    ELSE (IF bit_is_set(bitmap, i) THEN <<values[i]>> ELSE <<>>)
         \o image_values(values, bitmap, i + 1)

\* a row image as the master writes it: no column is NULL
row_image(values, bitmap) == <<0>> \o image_values(values, bitmap, 0)

\* the byte at ptr, where beyond is what lies outside the event
byte_at(data, ptr, beyond) == IF ptr < Len(data) THEN data[ptr + 1] ELSE beyond

\* avro_generic_value_new: a record with the default value in every field
NewRecord == [c \in Columns |-> 0]

RECURSIVE process_columns(_, _, _, _, _, _, _)
\* the loop of process_row_event_data from column i on
process_columns(data, ptr, null_bitmap, columns_present, record, beyond, i) ==
    IF i >= RowColumns THEN [ptr |-> ptr, record |-> record]
    ELSE IF ~bit_is_set(columns_present, i)
    THEN process_columns(data, ptr, null_bitmap, columns_present, record, beyond, i + 1)
    ELSE IF bit_is_set(null_bitmap, i)
    THEN process_columns(data, ptr, null_bitmap, columns_present,
                         [record EXCEPT ![i] = -1], beyond, i + 1)
    ELSE process_columns(data, ptr + 1, null_bitmap, columns_present,
                         [record EXCEPT ![i] = byte_at(data, ptr, beyond)],
                         beyond, i + 1)

\* process_row_event_data: the null bitmap is read at ptr, then the value
\* of every column that columns_present names; a NULL is the field -1
process_row_event_data(data, ptr, columns_present, record, beyond) ==
    process_columns(data, ptr + 1, byte_at(data, ptr, beyond), columns_present,
                    record, beyond, 0)

\* the bitmap that handle_row_event hands over for the after image
after_image_bitmap(col_present, col_update) == col_present

\* one pass of the loop of handle_row_event for an UPDATE rows event: the
\* before image gives the record update_before, the after image the record
\* update_after; the record is the same object in both
update_row(data, ptr, col_present, col_update, record, beyond) ==
    LET before == process_row_event_data(data, ptr, col_present, record, beyond)
        after == process_row_event_data(data, before.ptr,
                                        after_image_bitmap(col_present, col_update),
                                        before.record, beyond)
    IN  [ptr |-> after.ptr,
         records |-> << [event_type |-> "update_before", fields |-> before.record],
                        [event_type |-> "update_after", fields |-> after.record] >>]

NoRow == [col_present |-> 0, col_update |-> 0, before |-> NewRecord,
          after |-> NewRecord, data |-> <<>>, ptr |-> 0, record |-> NewRecord,
          records |-> <<>>, done |-> TRUE]

(***************************************************************************)
(* The state.                                                              *)
(*   client   the AVRO_CLIENT of the session                               *)
(*   dcb      its DCB: the drain callback, the queued write-ready events   *)
(*            (synthetic ones and those of the socket, which the poll      *)
(*            system does not tell apart), whether writes succeed,         *)
(*            whether closed                                               *)
(*   out      what the client sent and got: the last request, the state    *)
(*            of the session when it arrived, its reply and return value,  *)
(*            the last schema preamble, the rows delivered                 *)
(*   thr      per poll thread: where it is in avro_client_callback and     *)
(*            its locals read_more and next_file                           *)
(*   avrodir  the Avro files on disk                                       *)
(*   conv     the conversion worker: its step, the records written, the    *)
(*            file it writes to                                            *)
(*   hist     history: the number of requests that named a file, whether   *)
(*            one of them asked for a GTID, whether a write to the client  *)
(*            failed in a callback                                         *)
(*   binlogdir  the binlog files, by their sequence number                 *)
(*   router   the AVRO_INSTANCE: the binlog file and the positions, the    *)
(*            GTID, the counters, the records in the Avro writers          *)
(*   rae      avro_read_all_events: where it is, its locals, the return    *)
(*            value of its last call                                       *)
(*   store    the cache directory: avro-conversion.ini, its .tmp file and  *)
(*            the records in the Avro files                                *)
(*   dhist    history of the driver: the restarts of the process, the      *)
(*            steps of a flush under way, the file and the position of a   *)
(*            transaction that the end of the file left open               *)
(*   tbl      the tables of the router: created_tables, table_maps,        *)
(*            active_maps, open_tables, the records appended to the Avro   *)
(*            files and table-ddl.list                                     *)
(*   stream   the events read of a stream and what became of the last one  *)
(*   block    a data block of an Avro file that is written, the size of    *)
(*            the file and the last call of maxavro_datablock_finalize     *)
(*   rowev    an UPDATE rows event of one row: its bitmaps and images, the *)
(*            place of the decoder in it and the records decoded so far    *)
(***************************************************************************)
VARIABLES client, dcb, out, thr, avrodir, conv, hist,
          binlogdir, router, rae, store, dhist, tbl, stream, block, rowev

\* the state of the client session and of the conversion driver
svars == <<client, dcb, out, thr, avrodir, conv, hist>>

dvars == <<binlogdir, router, rae, store, dhist>>

tvars == <<tbl, stream, block, rowev>>

vars == <<svars, dvars, tvars>>

IdleThread == [pc |-> "idle", read_more |-> FALSE, next_file |-> FALSE]

\* the session of a client that has connected
SessionInit ==
    /\ client = NewClient
    /\ dcb = [callback |-> FALSE, events |-> 0, connected |-> TRUE, closed |-> FALSE]
    /\ out = [request |-> <<>>, from |-> AVRO_CLIENT_UNREGISTERED, reply |-> NoReply,
              ret |-> 0, preamble |-> NoPreamble, sent |-> <<>>]
    /\ thr = [t \in Threads |-> IdleThread]
    /\ avrodir = <<>>
    /\ conv = [wpc |-> "notify", rows |-> 0, file |-> <<>>]
    /\ hist = [data_requests |-> 0, gtid_asked |-> FALSE, write_failed |-> FALSE]

Init ==
    /\ SessionInit
    /\ binlogdir = <<>>
    /\ router = NewRouter
    /\ rae = NotReading(AVRO_OK, "")
    /\ store = NoStore
    /\ dhist = NoHistory
    /\ tbl = NoTables
    /\ stream = NoStream
    /\ block = NewBlock
    /\ rowev = NoRow

\* poll_fake_write_event: a write-ready event is queued for the DCB
poll_fake_write_event(d) ==
    [d EXCEPT !.events = Min(d.events + 1, MaxEvents)]

\* dcb->func.write: data written to a connected client waits in the write
\* queue, and the socket raises a write-ready event when it has gone out
dcb_write(d, written) ==
    IF written /\ d.connected THEN poll_fake_write_event(d) ELSE d

\* a REGISTER request
IsRegister(request) == strstr(request, reg_uuid) # 0

\* the client sends a request and the router handles it; a client that has
\* registered does not register again
HandleRequest(request) ==
    /\ dcb.connected
    /\ IsRegister(request) =>
          client.state \in {AVRO_CLIENT_UNREGISTERED, AVRO_CLIENT_ERRORED}
    /\ SetsFile(client, request) => hist.data_requests < MaxDataRequests
    /\ \E r \in {avro_client_handle_request(client, avrodir, request)} :
       LET d1 == [dcb EXCEPT !.closed = dcb.closed \/ r.close,
                             !.callback = dcb.callback \/ r.callback]
       IN  /\ client' = r.client
           /\ dcb' = dcb_write(IF r.event THEN poll_fake_write_event(d1) ELSE d1,
                               r.reply # NoReply \/ r.preamble # NoPreamble)
           /\ out' = [out EXCEPT !.request = request, !.from = client.state,
                                 !.reply = r.reply, !.ret = r.ret,
                                 !.preamble = IF r.preamble = NoPreamble
                                              THEN out.preamble ELSE r.preamble]
           /\ hist' = [hist EXCEPT
                         !.data_requests = IF SetsFile(client, request)
                                           THEN hist.data_requests + 1
                                           ELSE hist.data_requests,
                         !.gtid_asked = hist.gtid_asked
                                        \/ (SetsFile(client, request)
                                            /\ r.client.requested_gtid)]
    /\ UNCHANGED <<thr, avrodir, conv, dvars, tvars>>

\* a variant of callback_busy that never finds the session busy
callback_busy_ignored(cstate) == FALSE

\* the test of the busy flag at the start of avro_client_callback
callback_busy(cstate) == HasFlag(cstate, AVRO_CS_BUSY)

\* avro_client_callback up to the release of catch_lock: a poll thread, the
\* first idle one, takes a queued write-ready event, finds the write queue
\* drained and calls the callback
CallbackEnter(t) ==
    /\ thr[t].pc = "idle"
    /\ \A u \in 1..(t - 1) : thr[u].pc # "idle"
    /\ dcb.callback /\ ~dcb.closed
    /\ dcb.events > 0
    /\ dcb' = [dcb EXCEPT !.events = dcb.events - 1]
    /\ IF callback_busy(client.cstate)
       THEN /\ thr' = [thr EXCEPT ![t].pc = "return"]
            /\ UNCHANGED client
       ELSE /\ client' = [client EXCEPT !.cstate = SetFlag(client.cstate, AVRO_CS_BUSY)]
            /\ thr' = [thr EXCEPT ![t].pc = "stream"]
    /\ UNCHANGED <<out, avrodir, conv, hist, dvars, tvars>>

\* avro_client_callback: the return of an invocation that found the session busy
CallbackReturn(t) ==
    /\ thr[t].pc = "return"
    /\ thr' = [thr EXCEPT ![t] = IdleThread]
    /\ UNCHANGED <<client, dcb, out, avrodir, conv, hist, dvars, tvars>>

\* avro_client_callback between the two critical sections: the call of
\* avro_client_stream_data, then the next file name, the access test and
\* the rotation
CallbackStream(t) ==
    /\ thr[t].pc = "stream"
    /\ \E s \in {avro_client_stream_data(client, avrodir, dcb.connected)} :
       \E filename \in {print_next_filename(s.client.avro_binfile)} :
       LET next_file == file_in_dir(avrodir, filename)
           r == rotate_avro_file(s.client, avrodir, filename)
       IN  /\ client' = IF next_file THEN r.client ELSE s.client
           /\ out' = [out EXCEPT !.sent = out.sent \o s.sent,
                                 !.preamble = IF next_file THEN r.preamble ELSE @]
           /\ thr' = [thr EXCEPT ![t].pc = "exit", ![t].read_more = s.read_more,
                                 ![t].next_file = next_file]
           /\ hist' = [hist EXCEPT !.write_failed = hist.write_failed \/ s.failed]
           /\ dcb' = dcb_write(dcb, s.sent # <<>> \/ next_file)
    /\ UNCHANGED <<avrodir, conv, dvars, tvars>>

\* avro_notify_client
avro_notify_client(c) == [c EXCEPT !.cstate = ClearFlag(c.cstate, AVRO_WAIT_DATA)]

\* avro_client_callback from the second acquire of catch_lock to the return
CallbackExit(t) ==
    /\ thr[t].pc = "exit"
    /\ LET waiting == [client EXCEPT !.cstate =
                          SetFlag(ClearFlag(client.cstate, AVRO_CS_BUSY), AVRO_WAIT_DATA)]
       IN  IF thr[t].next_file \/ thr[t].read_more
           THEN /\ client' = avro_notify_client(waiting)
                /\ dcb' = poll_fake_write_event(dcb)
           ELSE /\ client' = waiting
                /\ UNCHANGED dcb
    /\ thr' = [thr EXCEPT ![t] = IdleThread]
    /\ UNCHANGED <<out, avrodir, conv, hist, dvars, tvars>>

\* notify_all_clients, called by the conversion worker at a commit that
\* reaches a flush threshold
NotifyAllClients ==
    /\ conv.wpc = "notify"
    /\ conv.rows < MaxRows
    /\ IF HasFlag(client.cstate, AVRO_WAIT_DATA)
       THEN /\ client' = avro_notify_client(client)
            /\ dcb' = poll_fake_write_event(dcb)
       ELSE UNCHANGED <<client, dcb>>
    /\ conv' = [conv EXCEPT !.wpc = "flush"]
    /\ UNCHANGED <<out, thr, avrodir, hist, dvars, tvars>>

\* the rows of a flushed block: every row is a transaction of its own, the
\* sequence numbers go up by one per row, and the transactions come from
\* the servers 1 and 2 in turn
NewRows(n) ==
    [i \in 1..n |-> [domain |-> 0,
                     server_id |-> 2 - ((conv.rows + i) % 2),
                     sequence |-> conv.rows + i]]

\* avro_flush_all_tables, which follows notify_all_clients: a block of the
\* records written since the last flush is appended to the file of the
\* current table version, or to the file of a new version of the table
AvroFlushAllTables(n, newversion) ==
    /\ conv.wpc = "flush"
    /\ conv.rows + n <= MaxRows
    /\ LET file == IF conv.file = <<>> THEN FirstFile
                   ELSE IF newversion THEN print_next_filename(conv.file)
                   ELSE conv.file
       IN  /\ newversion => conv.file # <<>> /\ Cardinality(DOMAIN avrodir) < MaxVersions
           /\ avrodir' = IF file \in DOMAIN avrodir
                         THEN [avrodir EXCEPT ![file] = Append(@, NewRows(n))]
                         ELSE [f \in DOMAIN avrodir \cup {file} |->
                                 IF f = file THEN <<NewRows(n)>> ELSE avrodir[f]]
           /\ conv' = [wpc |-> "notify", rows |-> conv.rows + n, file |-> file]
    /\ UNCHANGED <<client, dcb, out, thr, hist, dvars, tvars>>

\* the client goes away: it sends nothing more and from now on every write
\* to it fails.  Until a callback writes nothing tells the session, so the
\* model lets the client go right before a callback streams.
Disconnect ==
    /\ dcb.connected
    /\ \E t \in Threads : thr[t].pc = "stream"
    /\ dcb' = [dcb EXCEPT !.connected = FALSE]
    /\ UNCHANGED <<client, out, thr, avrodir, conv, hist, dvars, tvars>>

Next ==
    \/ \E request \in Requests : HandleRequest(request)
    \/ \E t \in Threads : CallbackEnter(t)
    \/ \E t \in Threads : CallbackReturn(t)
    \/ \E t \in Threads : CallbackStream(t)
    \/ \E t \in Threads : CallbackExit(t)
    \/ NotifyAllClients
    \/ \E n \in 1..MaxBlockRows, newversion \in BOOLEAN :
          AvroFlushAllTables(n, newversion)
    \/ Disconnect

Spec == Init /\ [][Next]_vars

(***************************************************************************)
(* Properties of the client session.                                       *)
(***************************************************************************)
\* the threads between the setting and the clearing of AVRO_CS_BUSY
Streaming == {t \in Threads : thr[t].pc \in {"stream", "exit"}}

Handled == out.request # <<>>

IsRequestData(request) == strstr(request, req_data) # 0

HasType(request) == strstr(request, type_key) # 0

IsUnknown(request) == ~IsRegister(request) /\ ~IsRequestData(request)

RepliedOK == out.reply = [msg |-> "OK", arg |-> <<>>]

RepliedRegistrationFailed ==
    out.reply = [msg |-> "ERR, code 12, msg: Registration failed", arg |-> <<>>]

RepliedNoData ==
    out.reply = [msg |-> "ERR REQUEST-DATA with no data", arg |-> <<>>]

\* C1: at any time at most one invocation of avro_client_callback is
\* between setting and clearing AVRO_CS_BUSY, and an invocation that meets
\* the flag set returns without streaming.
C1_OneStreamingInvocation ==
    /\ [](Cardinality(Streaming) <= 1)
    /\ [][\A t \in Threads :
            /\ (thr[t].pc = "idle" /\ HasFlag(client.cstate, AVRO_CS_BUSY))
                  => thr'[t].pc \in {"idle", "return"}
            /\ thr[t].pc = "return" => thr'[t].pc \in {"return", "idle"}]_vars

\* C1 witness: one invocation streams while another one has met the busy flag
C1_Witness ==
    \E t, u \in Threads : thr[t].pc = "stream" /\ thr[u].pc = "return"

\* C2: a request received in state Unregistered has exactly two outcomes:
\* the reply OK and the state Registered, or the reply "ERR, code 12, msg:
\* Registration failed", the state Errored and the connection closed.
C2_RegistrationOutcomes ==
    (Handled /\ out.from = AVRO_CLIENT_UNREGISTERED) =>
        \/ RepliedOK /\ client.state = AVRO_CLIENT_REGISTERED /\ ~dcb.closed
        \/ RepliedRegistrationFailed /\ client.state = AVRO_CLIENT_ERRORED /\ dcb.closed

\* C2 witness: a registration has succeeded
C2_Witness ==
    Handled /\ out.from = AVRO_CLIENT_UNREGISTERED /\ RepliedOK
    /\ client.state = AVRO_CLIENT_REGISTERED

\* C3 as stated: a REGISTER request with a UUID and no TYPE clause is
\* accepted, the reply is OK and the session becomes Registered.
C3_TypeOptional ==
    (Handled /\ out.from = AVRO_CLIENT_UNREGISTERED
       /\ IsRegister(out.request) /\ ~HasType(out.request)) =>
        RepliedOK /\ client.state = AVRO_CLIENT_REGISTERED

\* C3 amended: the TYPE clause of REGISTER is required: a REGISTER request
\* with a UUID and no TYPE clause is rejected, the reply is "ERR, code 12,
\* msg: Registration failed" and the session becomes Errored.
C3_TypeRequired ==
    (Handled /\ out.from = AVRO_CLIENT_UNREGISTERED
       /\ IsRegister(out.request) /\ ~HasType(out.request)) =>
        RepliedRegistrationFailed /\ client.state = AVRO_CLIENT_ERRORED

\* C3 witness: a registration without TYPE has been rejected
C3_Witness ==
    out.request = ReqRegisterNoType /\ out.from = AVRO_CLIENT_UNREGISTERED
    /\ RepliedRegistrationFailed

\* C4 as stated: a request other than REQUEST-DATA received in state
\* Registered leaves the session Registered.
C4_OnlyRequestDataMoves ==
    (Handled /\ out.from = AVRO_CLIENT_REGISTERED /\ ~IsRequestData(out.request)) =>
        client.state = AVRO_CLIENT_REGISTERED

\* C4 amended: a session in state Registered moves to RequestData with the
\* first request it receives, whatever the request is; no request leaves it
\* Registered.
C4_AnyRequestMoves ==
    (Handled /\ out.from = AVRO_CLIENT_REGISTERED) =>
        client.state = AVRO_CLIENT_REQUEST_DATA

\* C4 witness: an unknown request has moved a Registered session to RequestData
C4_Witness ==
    out.from = AVRO_CLIENT_REGISTERED /\ out.request = ReqUnknown
    /\ client.state = AVRO_CLIENT_REQUEST_DATA

\* C5 as stated: an unknown request received in any state but Errored is
\* answered with ECHO: followed by the request.
C5_EchoInEveryState ==
    (Handled /\ out.from # AVRO_CLIENT_ERRORED /\ IsUnknown(out.request)) =>
        out.reply = [msg |-> "ECHO:", arg |-> out.request]

\* C5 amended: an unknown request received in state Registered or
\* RequestData is answered with ECHO: followed by the request; received in
\* state Unregistered it is a failed registration.
C5_EchoWhenRegistered ==
    (Handled /\ IsUnknown(out.request)) =>
        /\ out.from \in {AVRO_CLIENT_REGISTERED, AVRO_CLIENT_REQUEST_DATA} =>
              out.reply = [msg |-> "ECHO:", arg |-> out.request]
        /\ out.from = AVRO_CLIENT_UNREGISTERED =>
              RepliedRegistrationFailed /\ client.state = AVRO_CLIENT_ERRORED

\* C5 witness: an unknown request has been echoed to a session in RequestData
C5_Witness ==
    out.from = AVRO_CLIENT_REQUEST_DATA /\ out.request = ReqUnknown
    /\ out.reply.msg = "ECHO:"

\* a REQUEST-DATA request without a file name, received after registration
NoFileNameRequest ==
    /\ Handled
    /\ out.from \in {AVRO_CLIENT_REGISTERED, AVRO_CLIENT_REQUEST_DATA}
    /\ IsRequestData(out.request) /\ ~NamesFile(out.request)

FailedRegistration ==
    Handled /\ out.from = AVRO_CLIENT_UNREGISTERED /\ RepliedRegistrationFailed

\* C6 as stated: a failed registration and a REQUEST-DATA request without a
\* file name both move the session to Errored and close the connection.
C6_ProtocolErrorsClose ==
    (FailedRegistration \/ NoFileNameRequest) =>
        client.state = AVRO_CLIENT_ERRORED /\ dcb.closed

\* C6 amended: a failed registration moves the session to Errored and closes
\* the connection; a REQUEST-DATA request without a file name is answered
\* "ERR REQUEST-DATA with no data" and leaves the session in RequestData with
\* the connection open.
C6_RegistrationErrorCloses ==
    /\ FailedRegistration => client.state = AVRO_CLIENT_ERRORED /\ dcb.closed
    /\ NoFileNameRequest =>
          RepliedNoData /\ client.state = AVRO_CLIENT_REQUEST_DATA /\ ~dcb.closed

\* C6 witness: a REQUEST-DATA request without a file name has been answered
C6_Witness == NoFileNameRequest /\ RepliedNoData

\* C7 as stated: once a write to the client has failed in a drain callback
\* and the callback has returned, the session is Errored and no further
\* streaming is scheduled for it.
C7_WriteFailureErrors ==
    (hist.write_failed /\ \A t \in Threads : thr[t].pc = "idle") =>
        client.state = AVRO_CLIENT_ERRORED /\ dcb.events = 0

\* the rows of a file in the order they are stored
RECURSIVE RowsOf(_)
RowsOf(blocks) ==
    IF blocks = <<>> THEN <<>> ELSE Head(blocks) \o RowsOf(Tail(blocks))

RowIn(f, row) == \E k \in 1..Len(RowsOf(avrodir[f])) : RowsOf(avrodir[f])[k] = row

PosIn(f, row) ==
    CHOOSE k \in 1..Len(RowsOf(avrodir[f])) : RowsOf(avrodir[f])[k] = row

\* the test of the GTID 0-1-2 that ReqDataGtid asks for
MatchesAsked(row) == row.domain = 0 /\ row.server_id = 1 /\ row.sequence >= 2

C10_RotatesAtEndOfFile ==
    [][\A t \in Threads :
          (thr[t].pc = "stream" /\ thr'[t].pc = "exit" /\ thr'[t].next_file) =>
              AtEndOfFile(avrodir,
                          avro_client_stream_data(client, avrodir,
                                                  dcb.connected).client.file_handle)]_vars

\* the kind of schema preamble of a session format
PreambleOf(format) ==
    IF format = "JSON" THEN "json" ELSE IF format = "AVRO" THEN "binary" ELSE ""

\* C11 as stated: whenever a session starts on a file, at REQUEST-DATA or
\* at the rotation to the next version file, the schema preamble it sends
\* is in the registered format of the session: the JSON schema for a JSON
\* session, the binary Avro header of the file for an AVRO session.
C11_PreambleInSessionFormat ==
    [][(out'.preamble # out.preamble /\ out'.preamble # NoPreamble)
          => out'.preamble.kind = PreambleOf(client'.format)]_vars

\* the records that a run of the drain callback would send now
UnsentRecords == avro_client_stream_data(client, avrodir, TRUE).sent

\* nothing is on its way that would run the drain callback: no write-ready
\* event is queued and no poll thread is in avro_client_callback
NothingResumes ==
    /\ dcb.events = 0
    /\ \A t \in Threads : thr[t].pc = "idle"

\* C27: the records that the conversion worker has flushed to the file that
\* a session in the state REQUEST_DATA streams are sent to the client, whose
\* connection stays writable, without a later flush.  As a property of the
\* states: once the worker has finished its notify and flush steps and
\* flushed records wait for the session, a write-ready event is queued or a
\* poll thread is in the drain callback.
C27_FlushedRecordsGetSent ==
    (/\ client.state = AVRO_CLIENT_REQUEST_DATA
     /\ dcb.callback /\ dcb.connected /\ ~dcb.closed
     /\ ~hist.write_failed
     /\ conv.wpc = "notify"
     /\ UnsentRecords # <<>>)
       => ~NothingResumes

\* C38: whenever the session has an open file_handle and no invocation of
\* the drain callback is in its busy section, the handle is one of the
\* file that avro_binfile names, also after a second REQUEST-DATA request
\* that names another file.
C38_HandleOfNamedFile ==
    (client.file_handle.open /\ Streaming = {})
       => client.file_handle.file = client.avro_binfile

\* C39: Errored is absorbing and no request moves the session backwards: a
\* request handled in state Errored returns 1, sends no reply and changes
\* neither the session nor the DCB (no callback added, no event queued);
\* no request takes a session from RequestData to Registered, or from any
\* other state to Unregistered.
C39_ErroredAbsorbingStateForward ==
    [][\A request \in Requests :
          HandleRequest(request)
             => /\ client.state = AVRO_CLIENT_ERRORED
                   => /\ out'.ret = 1
                      /\ out'.reply = NoReply
                      /\ client' = client
                      /\ dcb' = dcb
                /\ client.state = AVRO_CLIENT_REQUEST_DATA
                   => client'.state # AVRO_CLIENT_REGISTERED
                /\ client.state # AVRO_CLIENT_UNREGISTERED
                   => client'.state # AVRO_CLIENT_UNREGISTERED]_vars

\* a request was handled in state Errored
C39_Witness ==
    /\ out.from = AVRO_CLIENT_ERRORED
    /\ out.request # <<>>
    /\ out.ret = 1
    /\ client.state = AVRO_CLIENT_ERRORED

(***************************************************************************)
(* The conversion driver as a state machine.  The binlog directory holds   *)
(* the first file and may hold the one after it.  The worker calls         *)
(* avro_read_all_events again and again; the process may stop at any       *)
(* point and start again from what the cache directory holds.              *)
(***************************************************************************)
\* the file after the first one, where there is one: empty, or with the
\* XID event of one more commit
NextFiles == {<<>>, <<"XID">>}

BinlogDirs ==
    {[f \in {1} |-> first] : first \in SeqsUpTo(EventTypes, MaxBinlogEvents)}
    \cup {[f \in {1, 2} |-> IF f = 1 THEN first ELSE second] :
             first \in SeqsUpTo(EventTypes, MaxBinlogEvents),
             second \in NextFiles}

DriverInit ==
    /\ SessionInit
    /\ binlogdir \in BinlogDirs
    /\ router = NewRouter
    /\ rae = NotReading(AVRO_OK, "")
    /\ store = NoStore
    /\ dhist = NoHistory
    /\ tbl = NoTables
    /\ stream = NoStream
    /\ block = NewBlock
    /\ rowev = NoRow

\* the call of avro_read_all_events: a binlog file that could not be
\* opened ends it at once
ReadAllEventsStart ==
    /\ rae.pc = "idle"
    /\ rae' = IF router.binlog_name \in DOMAIN binlogdir
              THEN Reading(router.current_pos)
              ELSE NotReading(AVRO_BINLOG_ERROR, "closed")
    /\ UNCHANGED <<svars, tvars, binlogdir, router, store, dhist>>

\* the top of the loop: the header of the event at pos is read; at the end
\* of the file and after a failed read the call returns, and so it does
\* for an event type that is not known
ReadHeader(fails) ==
    /\ rae.pc = "header"
    /\ \E n \in {pread_header(binlogdir[router.binlog_name], rae.pos, fails)} :
       \E hdr \in {header_at(binlogdir[router.binlog_name], rae.pos)} :
       \E r \in {IF n # BINLOG_EVENT_HDR_LEN
                 THEN header_not_read(router, rae, binlogdir, n)
                 ELSE IF hdr.event_type = "INVALID"
                 THEN event_error(router, rae, "invalid")
                 ELSE [router |-> router,
                       loc |-> [rae EXCEPT !.pc = "payload", !.hdr = hdr]]} :
          /\ router' = r.router
          /\ rae' = r.loc
          /\ dhist' = IF r.loc.ret = AVRO_OPEN_TRANSACTION /\ r.loc.exit = "eof"
                      THEN [dhist EXCEPT !.open_file = router.binlog_name,
                                         !.open_pos = rae.last_known_commit]
                      ELSE dhist
    /\ UNCHANGED <<svars, tvars, binlogdir, store>>

\* read_event_data and the branch of the event type, up to the next event
\* or, at an XID event that meets a target, up to the flush
ReadEvent(fails) ==
    /\ rae.pc = "payload"
    /\ \E d \in {dispatch_event(router, rae)} :
       \E r \in {IF fails THEN event_error(router, rae, "read")
                 ELSE IF rae.hdr.event_type = "XID" /\ flush_due(d.router)
                 THEN [router |-> d.router, loc |-> [d.loc EXCEPT !.pc = "notify"]]
                 ELSE next_event(d.router, d.loc)} :
          /\ router' = r.router
          /\ rae' = r.loc
          /\ dhist' = IF r.loc.pc = "notify" THEN [dhist EXCEPT !.steps = <<>>]
                      ELSE dhist
    /\ UNCHANGED <<svars, tvars, binlogdir, store>>

\* the flush of the XID branch, first call: notify_all_clients
NotifyClients ==
    /\ rae.pc = "notify"
    /\ rae' = [rae EXCEPT !.pc = "flush"]
    /\ dhist' = [dhist EXCEPT !.steps = Append(@, "notify")]
    /\ UNCHANGED <<svars, tvars, binlogdir, router, store>>

\* second call: avro_flush_all_tables, the records of the writers go to
\* the Avro files
FlushAllTables ==
    /\ rae.pc = "flush"
    /\ rae' = [rae EXCEPT !.pc = "save"]
    /\ store' = [store EXCEPT !.avro = @ \o router.writers]
    /\ router' = [router EXCEPT !.writers = <<>>]
    /\ dhist' = [dhist EXCEPT !.steps = Append(@, "flush")]
    /\ UNCHANGED <<svars, tvars, binlogdir>>

\* third call: avro_save_conversion_state up to fclose.  With lines = -1
\* the fopen fails and the function returns; else lines of the three key
\* lines reach avro-conversion.ini.tmp
SaveConversionState(lines) ==
    /\ rae.pc = "save"
    /\ dhist' = [dhist EXCEPT !.steps = IF lines = -1 THEN <<>>
                                        ELSE Append(@, "checkpoint")]
    /\ IF lines = -1
       THEN \E r \in {next_event(counters_reset(router), rae)} :
               /\ router' = r.router
               /\ rae' = r.loc
               /\ UNCHANGED store
       ELSE /\ store' = [store EXCEPT !.tmp = conversion_state(router, lines)]
            /\ rae' = [rae EXCEPT !.pc = "rename"]
            /\ UNCHANGED router
    /\ UNCHANGED <<svars, tvars, binlogdir>>

\* avro_save_conversion_state from the rename on, then the reset of the
\* counters and the end of the loop body
RenameConversionState(fails) ==
    /\ rae.pc = "rename"
    /\ store' = IF fails THEN store
                ELSE [store EXCEPT !.ini = store.tmp, !.tmp = NoFile]
    /\ \E r \in {next_event(counters_reset(router), rae)} :
          /\ router' = r.router
          /\ rae' = r.loc
    /\ dhist' = [dhist EXCEPT !.steps = <<>>]
    /\ UNCHANGED <<svars, tvars, binlogdir>>

\* the process stops, wherever the conversion is, and starts again: what
\* the writers held is lost, the router starts from the stored state
Restart ==
    /\ dhist.restarts < MaxRestarts
    /\ router' = avro_load_conversion_state(NewRouter, store.ini)
    /\ rae' = NotReading(AVRO_OK, "")
    /\ dhist' = [dhist EXCEPT !.restarts = @ + 1, !.steps = <<>>]
    /\ UNCHANGED <<svars, tvars, binlogdir, store>>

DriverNext ==
    \/ ReadAllEventsStart
    \/ \E fails \in BOOLEAN : ReadHeader(fails)
    \/ \E fails \in BOOLEAN : ReadEvent(fails)
    \/ NotifyClients
    \/ FlushAllTables
    \/ \E lines \in -1..3 : SaveConversionState(lines)
    \/ \E fails \in BOOLEAN : RenameConversionState(fails)
    \/ Restart

DriverSpec == DriverInit /\ [][DriverNext]_vars

(***************************************************************************)
(* Properties of the conversion driver.                                    *)
(***************************************************************************)
\* C12 as stated: at every flush trigger the driver flushes all open Avro
\* writers, then notifies the waiting clients, then writes the checkpoint,
\* and no client is notified while records of the trigger are still in the
\* writers.
C12_FlushThenNotifyThenCheckpoint ==
    /\ dhist.steps \in {<<>>, <<"flush">>, <<"flush", "notify">>,
                        <<"flush", "notify", "checkpoint">>}
    /\ rae.pc = "flush" => router.writers = <<>>

\* the event that was handled last is a commit: an XID event or the COMMIT
\* of a non-transactional engine
CommitHandled == rae.pc = "header" /\ rae.hdr.event_type \in {"XID", "COMMIT"}

\* C13 as stated: whenever the processing of a commit event, an XID_EVENT
\* or a non-transactional COMMIT query event, brings row_count to
\* row_target or trx_count to trx_target, the writers are flushed, the
\* checkpoint is written and both counters are reset to 0: after a commit
\* event no counter is at its target and no record is left in the writers
\* that a target asked to flush.
C13_CommitAtTargetFlushes ==
    CommitHandled => /\ router.row_count < row_target
                     /\ router.trx_count < trx_target

\* a step writes to the Avro files or to avro-conversion.ini or its .tmp
StoreWritten == store' # store

CheckpointComplete == store.ini # NoFile /\ store.ini.lines = 3

\* C15: in every reachable state, the position stored in
\* avro-conversion.ini is the offset of the start of an event header of
\* the binlog file it names, or the end-of-file offset of that file.
C15_CheckpointAtEventHeader ==
    CheckpointComplete =>
        /\ store.ini.file \in DOMAIN binlogdir
        /\ store.ini.position \in HeaderStarts(binlogdir[store.ini.file])
                                  \cup {FileSize(binlogdir[store.ini.file])}

\* a checkpoint was written at an XID event that is not the first event of
\* its file
C15_Witness ==
    /\ CheckpointComplete
    /\ store.ini.position > BINLOG_MAGIC_SIZE
    /\ binlogdir[store.ini.file][EventAt(binlogdir[store.ini.file],
                                         store.ini.position)] = "XID"

\* C16 as stated: the checkpoint is updated atomically.  At every point
\* during and after avro_save_conversion_state, also when a write, the
\* close or the rename fails or the process stops between two steps,
\* avro-conversion.ini holds the complete previous checkpoint or the
\* complete new one, with position, gtid and file of the same save.
C16_CheckpointAtomic ==
    [][store'.ini # store.ini => store'.ini = conversion_state(router, 3)]_vars

\* C17 as stated: if the conversion stops at any point, by an error return
\* or a stop of the process, and resumes from the stored checkpoint, no
\* row event is replayed: no record that is in an Avro file is written to
\* it a second time.
C17_NoRecordWrittenTwice ==
    \A i, j \in 1..Len(store.avro) : store.avro[i] = store.avro[j] => i = j

\* a call of avro_read_all_events returns because a read of the binlog
\* failed or came short
ReadFailed == rae.pc \in {"header", "payload"} /\ rae'.pc = "idle" /\ rae'.exit = "read"

\* C18 as stated: whenever a read of the binlog fails with an I/O error or
\* a short read, of the 19-byte event header or of the event payload, the
\* conversion stops with AVRO_BINLOG_ERROR and binlog_position is set to
\* the last known commit, the offset of the last event that was read while
\* no transaction was pending.
C18_ReadFailureKeepsSafePosition ==
    [][ReadFailed => /\ rae'.ret = AVRO_BINLOG_ERROR
                     /\ router'.binlog_position = rae.last_known_commit]_vars

\* a call of avro_read_all_events returns at the end of the file
EndOfFile == rae.pc = "header" /\ rae'.pc = "idle" /\ rae'.exit = "eof"

\* the router has gone to the file next, which it reads from offset 4
SwitchedTo(next) ==
    /\ router'.binlog_name = next
    /\ router'.current_pos = 4
    /\ router'.binlog_position = 4

\* C19 as stated: at the end of the file, with a transaction pending the
\* converter returns AVRO_OPEN_TRANSACTION and keeps the binlog file;
\* otherwise it goes to the next file if a ROTATE_EVENT or a STOP_EVENT
\* was seen; otherwise it goes to the next numbered file if that file
\* exists and else returns AVRO_LAST_FILE with the file name unchanged.
\* Every switch sets current_pos and binlog_position to 4.
C19_EndOfFileAsStated ==
    [][EndOfFile =>
          IF rae.pending_transaction > 0
          THEN rae'.ret = AVRO_OPEN_TRANSACTION /\ router'.binlog_name = router.binlog_name
          ELSE IF rae.rotate_seen \/ rae.stop_seen
          THEN SwitchedTo(blr_file_get_next_binlogname(router.binlog_name))
          ELSE IF binlog_next_file_exists(binlogdir, router.binlog_name)
          THEN SwitchedTo(blr_file_get_next_binlogname(router.binlog_name))
          ELSE rae'.ret = AVRO_LAST_FILE /\ router'.binlog_name = router.binlog_name]_vars

\* C19, amended: at the end of the file, with a transaction pending the
\* converter returns AVRO_OPEN_TRANSACTION and keeps the binlog file;
\* otherwise it goes to the file a ROTATE_EVENT named if one was seen;
\* otherwise, after a STOP_EVENT as well as without one, it goes to the
\* next numbered file if that file exists and else returns AVRO_LAST_FILE
\* with the file name unchanged.  Every switch returns AVRO_OK and sets
\* current_pos and binlog_position to 4.
C19_EndOfFile ==
    [][EndOfFile =>
          IF rae.pending_transaction > 0
          THEN rae'.ret = AVRO_OPEN_TRANSACTION /\ router'.binlog_name = router.binlog_name
          ELSE IF rae.rotate_seen
          THEN rae'.ret = AVRO_OK /\ SwitchedTo(rae.next_binlog)
          ELSE IF binlog_next_file_exists(binlogdir, router.binlog_name)
          THEN /\ rae'.ret = AVRO_OK
               /\ SwitchedTo(blr_file_get_next_binlogname(router.binlog_name))
          ELSE rae'.ret = AVRO_LAST_FILE /\ router'.binlog_name = router.binlog_name]_vars

\* a file that ends with a STOP_EVENT was read to its end while no next
\* file exists: the converter stays on it
C19_Witness ==
    /\ rae.pc = "idle" /\ rae.exit = "eof" /\ rae.ret = AVRO_LAST_FILE
    /\ router.binlog_name = 1
    /\ binlogdir[1] # <<>>
    /\ binlogdir[1][Len(binlogdir[1])] = "STOP"
    /\ dhist.restarts = 0

\* the end of the file has left a transaction open, in the file
\* dhist.open_file, that began at the offset dhist.open_pos
TransactionLeftOpen == dhist.open_file # 0

\* C20 as stated: after avro_read_all_events has returned
\* AVRO_OPEN_TRANSACTION, the next attempt resumes from the last committed
\* position: the events of the incomplete transaction are read again, the
\* transaction is pending again, and the converter does not leave the file
\* while the transaction is incomplete.
C20_OpenTransactionReadAgain ==
    [][TransactionLeftOpen =>
          /\ (rae.pc = "idle" /\ rae'.pc = "header") => rae'.pos <= dhist.open_pos
          /\ router'.binlog_name = dhist.open_file]_vars

\* C28: trx_count is incremented by commit events only, which are the
\* XID_EVENTs and the COMMIT query events of non-transactional engines: no
\* BEGIN query event, GTID event or other event increments it.
C28_OnlyCommitsCounted ==
    [][router'.trx_count > router.trx_count
          => /\ rae.pc = "payload"
             /\ rae.hdr.event_type \in {"XID", "COMMIT"}]_vars

(***************************************************************************)
(* The handling of a stream of events: avro_read_all_events reads one      *)
(* binlog file whose events, with what is wrong with their headers, are    *)
(* chosen as they are read.                                                *)
(***************************************************************************)
\* the router has loaded the statements of table-ddl.list, if there are any
StreamInit ==
    /\ SessionInit
    /\ binlogdir = <<>>
    /\ router = NewRouter
    /\ rae = Reading(BINLOG_MAGIC_SIZE)
    /\ store = NoStore
    /\ dhist = NoHistory
    /\ tbl \in {[NoTables EXCEPT !.created_tables = c] : c \in [Tables -> {0, 1}]}
    /\ stream = NoStream
    /\ block = NewBlock
    /\ rowev = NoRow

\* the top of the loop: the header of the next event is read and tested
ReadStreamHeader(ev, fault) ==
    /\ rae.pc = "header"
    /\ stream.events < MaxStreamEvents
    /\ \E hdr \in {rep_header(ev, rae.pos, fault)} :
       \E r \in {IF header_accepted(hdr)
                 THEN [router |-> router,
                       loc |-> [rae EXCEPT !.pc = "payload", !.hdr = hdr]]
                 ELSE event_error(router, [rae EXCEPT !.hdr = hdr], "invalid")} :
          /\ router' = r.router
          /\ rae' = [r.loc EXCEPT !.hdr = hdr]
          /\ stream' = [stream EXCEPT
                          !.events = @ + 1, !.ev = ev,
                          !.map_event = IF ev.type = "TABLE_MAP" THEN ev ELSE @,
                          !.outcome = IF header_accepted(hdr) THEN "" ELSE "rejected"]
    /\ UNCHANGED <<svars, binlogdir, store, dhist, tbl, block, rowev>>

\* the end of the file: the pread of the header returns 0
StreamEnd ==
    /\ rae.pc = "header"
    /\ \E r \in {header_not_read(router, rae, binlogdir, 0)} :
          /\ router' = r.router
          /\ rae' = r.loc
    /\ stream' = [stream EXCEPT !.ev = NoEvent, !.outcome = ""]
    /\ UNCHANGED <<svars, binlogdir, store, dhist, tbl, block, rowev>>

\* read_event_data and the branch of the event type, up to the next event
\* or, at an XID event that meets a target, up to the flush.  Where the
\* code reads or writes what is no valid memory, the process stops (ub =
\* "crash") or goes on with what it finds there, and a slot outside
\* active_maps then holds what was written to it; a row event whose size is
\* below that of a header makes the loop over its row images run over
\* four gigabytes, which stops the process.
HandleStreamEvent(fails, ub) ==
    /\ rae.pc = "payload"
    /\ \E read \in {read_event_data(rae.hdr, stream_payload_len(stream.ev), fails)} :
       \E invalid \in {\/ terminator_out_of_bounds(rae.hdr)
                       \/ read /\ reads_invalid_memory(tbl, rae.hdr, stream.ev)
                       \/ read /\ outside_active_maps(tbl, rae.hdr, stream.ev,
                                                       fails = "handler")} :
       \E crash \in {/\ invalid
                     /\ \/ ub = "crash"
                        \/ /\ read
                           /\ rae.hdr.event_type \in RowEventTypes
                           /\ rae.hdr.event_size < BINLOG_EVENT_HDR_LEN} :
       \E d \in {stream_dispatch(router, rae, tbl, stream.ev, fails = "handler")} :
       \E r \in {IF crash
                 THEN [router |-> router, loc |-> NotReading(rae.ret, "crash"),
                       tbl |-> tbl, outcome |-> "crashed"]
                 ELSE IF ~read
                 THEN [router |-> event_error(router, rae, "read").router,
                       loc |-> [event_error(router, rae, "read").loc
                                   EXCEPT !.hdr = rae.hdr],
                       tbl |-> tbl, outcome |-> "rejected"]
                 ELSE IF rae.hdr.event_type = "XID" /\ flush_due(d.router)
                 THEN [router |-> d.router, loc |-> [d.loc EXCEPT !.pc = "notify"],
                       tbl |-> d.tbl, outcome |-> "dispatched"]
                 ELSE [router |-> next_event(d.router, d.loc).router,
                       loc |-> [next_event(d.router, d.loc).loc EXCEPT !.hdr = rae.hdr],
                       tbl |-> d.tbl, outcome |-> "dispatched"]} :
          /\ router' = r.router
          /\ rae' = r.loc
          /\ tbl' = r.tbl
          /\ stream' = [stream EXCEPT !.outcome = r.outcome]
    /\ UNCHANGED <<svars, binlogdir, store, dhist, block, rowev>>

StreamNext ==
    \/ \E ev \in StreamEvents(stream.map_event), fault \in HeaderFaults :
          ReadStreamHeader(ev, fault)
    \/ StreamEnd
    \/ \E fails \in {"none", "alloc", "pread", "handler"}, ub \in {"crash", "go on"} :
          HandleStreamEvent(fails, ub)
    \/ NotifyClients
    \/ FlushAllTables
    \/ \E lines \in -1..3 : SaveConversionState(lines)
    \/ \E fails \in BOOLEAN : RenameConversionState(fails)

StreamSpec == StreamInit /\ [][StreamNext]_vars

\* the same reading of a stream in which the server opens tables again:
\* the events carry every id of a table, and the headers are sound
TableNext ==
    \/ \E ev \in TableEvents(stream.map_event) : ReadStreamHeader(ev, "none")
    \/ StreamEnd
    \/ \E fails \in {"none", "alloc", "pread", "handler"}, ub \in {"crash", "go on"} :
          HandleStreamEvent(fails, ub)

TableSpec == StreamInit /\ [][TableNext]_vars

(***************************************************************************)
(* Properties of the handling of the events.                               *)
(***************************************************************************)
\* a step of HandleStreamEvent in which the event at hand reaches the
\* branch of its event type
Dispatched == rae.pc = "payload" /\ stream'.outcome = "dispatched"

\* the map that handle_row_event finds for the row event at hand and takes
\* for the map of the event
ActiveMap == tbl.active_maps[active_maps_slot(stream.ev.id)]

RowEventConverted ==
    /\ Dispatched
    /\ stream.ev.type \in RowEventTypes
    /\ rae.hdr.event_size >= BINLOG_EVENT_HDR_LEN
    /\ ActiveMap # NoMap
    /\ tbl.open_tables[ActiveMap.table] # 0
    /\ stream.ev.columns = ActiveMap.columns

\* the records of the rows of a row event, in the order of the rows
RecordsOf(ev) ==
    IF ev.type = "UPDATE_ROWS"
    THEN [i \in 1..(2 * ev.rows) |->
            IF i % 2 = 1 THEN "update_before" ELSE "update_after"]
    ELSE [i \in 1..ev.rows |-> IF ev.type = "WRITE_ROWS" THEN "insert" ELSE "delete"]

ColumnCountMismatch ==
    /\ Dispatched
    /\ stream.ev.type \in RowEventTypes
    /\ ActiveMap # NoMap
    /\ stream.ev.columns # ActiveMap.columns

\* C22: a row event whose column count differs from that of the map it is
\* handled with appends no record to any Avro file, and the loop goes on
\* with the event that follows, where next_pos says it is
C22_ColumnCountMismatchSkipsEvent ==
    [][ColumnCountMismatch =>
          /\ tbl' = tbl
          /\ next_pos_accepted(rae.hdr, rae.pos) =>
                /\ rae'.pc = "header"
                /\ rae'.pos = rae.hdr.next_pos]_vars

\* a row event of two columns has met a map of one column and the loop is
\* at the next header
C22_Witness ==
    /\ stream.outcome = "dispatched"
    /\ stream.ev.type \in RowEventTypes
    /\ stream.ev.columns = 2
    /\ ActiveMap # NoMap
    /\ ActiveMap.columns = 1
    /\ tbl.open_tables[ActiveMap.table] # 0
    /\ rae.pc = "header"
    /\ \A t \in Tables : tbl.records[t] = <<>>

\* C23 as stated: a row event whose table id is the id of no map, neither
\* of table_maps nor of active_maps, appends no record to any Avro file
C23_UnknownTableIdProducesNoRecord ==
    [][(/\ Dispatched
        /\ stream.ev.type \in RowEventTypes
        /\ \A t \in Tables : tbl.table_maps[t].id # stream.ev.id
        /\ \A s \in Slots : tbl.active_maps[s].id # stream.ev.id)
          => tbl'.records = tbl.records]_vars

\* C24 as stated: while a table has no TABLE_CREATE, its table map events
\* register no map and its row events append no record
C24_NoCreateNoMapNoRecord ==
    [][(/\ Dispatched
        /\ stream.ev.type \in RowEventTypes \cup {"TABLE_MAP"}
        /\ tbl.created_tables[stream.ev.table] = 0)
          => tbl' = tbl]_vars

\* the header has a next_pos that the sanity checks of the loop refuse
BadNextPos(hdr, pos) ==
    /\ hdr.next_pos > 0
    /\ \/ hdr.next_pos # pos + hdr.event_size
       \/ hdr.next_pos <= pos

\* C29: an event whose header has next_pos > 0 and either next_pos #
\* offset + event_size or next_pos <= offset ends the reading before the
\* event has an effect: it reaches no branch of the event types, and the
\* tables, the GTID and the counters of the router stay as they are.
C29_BadNextPosNotDispatched ==
    [][(/\ rae.pc = "payload"
        /\ rae.hdr.event_size >= BINLOG_EVENT_HDR_LEN
        /\ BadNextPos(rae.hdr, rae.pos))
          => /\ stream'.outcome # "dispatched"
             /\ tbl' = tbl
             /\ router'.gtid = router.gtid
             /\ router'.trx_count = router.trx_count]_vars

\* C26: a CREATE TABLE statement that is handled either is appended to
\* table-ddl.list, and then the new TABLE_CREATE is the entry of its table
\* in created_tables and the entries of the other tables are as before, or
\* is not appended, and then created_tables and table_maps are as before
C26_CreateSavedThenReplaced ==
    [][(/\ Dispatched
        /\ stream.ev.type = "CREATE"
        /\ rae.hdr.event_size >= BINLOG_EVENT_HDR_LEN)
          => IF tbl'.ddl_list # tbl.ddl_list
             THEN /\ tbl'.ddl_list = Append(tbl.ddl_list, stream.ev.table)
                  /\ tbl'.created_tables =
                        [tbl.created_tables EXCEPT ![stream.ev.table] = 1]
             ELSE /\ tbl'.created_tables = tbl.created_tables
                  /\ tbl'.table_maps = tbl.table_maps]_vars

\* a CREATE TABLE statement has replaced the entry of a table that had a
\* map and an open Avro table
C26_Witness ==
    /\ stream.outcome = "dispatched"
    /\ stream.ev.type = "CREATE"
    /\ tbl.ddl_list = <<stream.ev.table>>
    /\ tbl.created_tables[stream.ev.table] = 1
    /\ tbl.open_tables[stream.ev.table] = 1
    /\ tbl.table_maps[stream.ev.table] = NoMap

\* the header declares a size below that of a header, or a type above
\* MAX_EVENT_TYPE_MARIADB10
InvalidHeader(hdr) ==
    \/ hdr.event_size < BINLOG_EVENT_HDR_LEN
    \/ hdr.event_type = "INVALID"

\* C30: an event whose header declares event_size < 19 or event_type >
\* 0xa3 is refused by the tests of the header, so that it never reaches the
\* branch of an event type.
C30_InvalidHeaderNotDispatched ==
    (stream.ev # NoEvent /\ InvalidHeader(rae.hdr))
       => stream.outcome # "dispatched"

\* an iteration of the loop of avro_read_all_events ends and the next one
\* begins
IterationGoesOn ==
    /\ rae.pc \notin {"idle", "header"}
    /\ rae'.pc = "header"

\* C40: every iteration of the loop of avro_read_all_events either returns
\* or moves the read position forward by the event_size of its event, which
\* is greater than 0: the header read leads to the return or to the payload
\* of the event at the same position, the steps within an iteration keep the
\* position, and an iteration that goes on leaves it strictly greater.
C40_PositionStrictlyIncreases ==
    [][/\ (rae.pc = "header" /\ rae' # rae)
          => /\ rae'.pc \in {"idle", "payload"}
             /\ rae'.pc = "payload" => rae'.pos = rae.pos
       /\ (rae.pc \notin {"idle", "header"} /\ rae'.pc \notin {"idle", "header"})
          => /\ rae'.pos = rae.pos
             /\ rae'.hdr = rae.hdr
       /\ IterationGoesOn
          => /\ rae.hdr.event_size > 0
             /\ rae'.pos = rae.pos + rae.hdr.event_size
             /\ rae'.pos > rae.pos]_vars

\* two events were handled one after the other and the third is to be read
C40_Witness ==
    /\ rae.pc = "header"
    /\ stream.events >= 2
    /\ stream.outcome = "dispatched"
    /\ rae.pos >= BINLOG_MAGIC_SIZE + 2 * BINLOG_EVENT_HDR_LEN

(***************************************************************************)
(* Properties of the table maps.                                           *)
(***************************************************************************)
\* a handler has run for the event at hand
HandlerRan ==
    /\ rae.pc = "payload"
    /\ rae.hdr.event_size >= BINLOG_EVENT_HDR_LEN
    /\ stream'.outcome \in {"dispatched", "crashed"}

\* C32: every read and every write of active_maps has an index within the
\* MAX_MAPPED_TABLES slots of the array: the handler of a row event, which
\* reads the slot of its table id, and the handler of a table map event
\* that registers a map, which writes it, use a slot below
\* MAX_MAPPED_TABLES.
C32_SlotIndexInBounds ==
    [][(/\ HandlerRan
        /\ \/ stream.ev.type \in RowEventTypes
           \/ /\ stream.ev.type = "TABLE_MAP"
              /\ tbl'.table_maps # tbl.table_maps)
          => active_maps_slot(stream.ev.id) < MAX_MAPPED_TABLES]_vars

\* C33: every slot of active_maps that is in use holds a map that
\* table_maps stores, also after a CREATE TABLE statement has deleted the
\* map of its table from table_maps.
C33_ActiveMapsAreStored ==
    \A s \in Slots :
       tbl.active_maps[s] # NoMap
          => tbl.table_maps[tbl.active_maps[s].table] = tbl.active_maps[s]

\* handle_table_map_event returns true: the table has a TABLE_CREATE and,
\* after the call, a map of the version of it
MapReturnedTrue ==
    /\ HandlerRan
    /\ stream'.outcome = "dispatched"
    /\ stream.ev.type = "TABLE_MAP"
    /\ tbl.created_tables[stream.ev.table] # 0
    /\ tbl'.table_maps[stream.ev.table] # NoMap
    /\ tbl'.table_maps[stream.ev.table].version = tbl.created_tables[stream.ev.table]

\* C34: after handle_table_map_event has returned true for a table map
\* event with table id T of a table, the slot of T holds the map of the
\* table, also when the table was mapped before under another id with the
\* same version.
C34_SlotHoldsMapOfEvent ==
    [][(/\ MapReturnedTrue
        /\ active_maps_slot(stream.ev.id) < MAX_MAPPED_TABLES)
          => tbl'.active_maps[active_maps_slot(stream.ev.id)]
                = tbl'.table_maps[stream.ev.table]]_vars

(***************************************************************************)
(* The writing of data blocks.                                             *)
(***************************************************************************)
DatablockInit ==
    /\ SessionInit
    /\ binlogdir = <<>>
    /\ router = NewRouter
    /\ rae = NotReading(AVRO_OK, "")
    /\ store = NoStore
    /\ dhist = NoHistory
    /\ tbl = NoTables
    /\ stream = NoStream
    /\ block = NewBlock
    /\ rowev = NoRow

\* a call of maxavro_datablock_add_*; with counted the caller counts a
\* record of the block, which the functions of the block leave to it.
\* Where the call reads or writes what is no valid memory the process
\* stops or goes on
DatablockAdd(v, outcome, counted, ub) ==
    /\ ~block.crashed
    /\ block.datasize < MaxBlockBytes
    /\ outcome \in realloc_outcomes(2 * block.buffersize)
    /\ \E b \in {maxavro_datablock_add(block, v, outcome)} :
          block' = IF add_invalid_memory(block, v, outcome) /\ ub = "crash"
                   THEN [block EXCEPT !.crashed = TRUE]
                   ELSE [b EXCEPT !.records = IF counted /\ b.last = "add true"
                                              THEN @ + 1 ELSE @]
    /\ UNCHANGED <<svars, dvars, tbl, stream, rowev>>

DatablockFinalize(failed, partial) ==
    /\ ~block.crashed
    /\ block.finalize.calls < MaxFinalizes
    /\ failed # 0 => partial < finalize_writes(block)[failed]
    /\ failed = 0 => partial = 0
    /\ block' = maxavro_datablock_finalize(block, failed, partial)
    /\ UNCHANGED <<svars, dvars, tbl, stream, rowev>>

\* the block is given up and a new one is allocated for the file
DatablockAllocate ==
    /\ ~block.crashed
    /\ block.buffersize = 0
    /\ block' = [NewBlock EXCEPT !.avrofile = block.avrofile,
                                 !.finalize = block.finalize]
    /\ UNCHANGED <<svars, dvars, tbl, stream, rowev>>

DatablockNext ==
    \/ \E v \in BlockValues, outcome \in {"new", "null", "freed", "empty"},
          counted \in BOOLEAN, ub \in {"crash", "go on"} :
          DatablockAdd(v, outcome, counted, ub)
    \/ \E failed \in 0..4, partial \in {0, 1, SYNC_MARKER_SIZE - 1} :
          DatablockFinalize(failed, partial)
    \/ DatablockAllocate

DatablockSpec == DatablockInit /\ [][DatablockNext]_vars

RowInit ==
    /\ SessionInit
    /\ binlogdir = <<>>
    /\ router = NewRouter
    /\ rae = NotReading(AVRO_OK, "")
    /\ store = NoStore
    /\ dhist = NoHistory
    /\ tbl = NoTables
    /\ stream = NoStream
    /\ block = NewBlock
    /\ \E col_present \in Bitmaps, col_update \in Bitmaps :
       \E before \in [Columns -> ColumnValues], after \in [Columns -> ColumnValues] :
          rowev = [NoRow EXCEPT
                   !.col_present = col_present, !.col_update = col_update,
                   !.before = before, !.after = after,
                   !.data = row_image(before, col_present)
                            \o row_image(after, col_update),
                   !.done = FALSE]

\* one pass of the loop over the rows of the event
DecodeRow(beyond) ==
    /\ ~rowev.done
    /\ rowev.ptr < Len(rowev.data)
    /\ \E r \in {update_row(rowev.data, rowev.ptr, rowev.col_present, rowev.col_update,
                            rowev.record, beyond)} :
          rowev' = [rowev EXCEPT !.ptr = r.ptr,
                             !.record = r.records[2].fields,
                             !.records = @ \o r.records]
    /\ UNCHANGED <<svars, dvars, tbl, stream, block>>

\* the end of the loop: ptr has reached the end of the event
RowEventDone ==
    /\ ~rowev.done
    /\ rowev.ptr >= Len(rowev.data)
    /\ rowev' = [rowev EXCEPT !.done = TRUE]
    /\ UNCHANGED <<svars, dvars, tbl, stream, block>>

RowNext ==
    \/ \E beyond \in AnyBytes : DecodeRow(beyond)
    \/ RowEventDone

RowSpec == RowInit /\ [][RowNext]_vars

\* C31: the after image of a row of an UPDATE rows event is decoded with
\* columns_update: a column whose bit is set in columns_update and clear in
\* columns_present has its value of the after image in the record
\* update_after.
C31_AfterImageUsesColumnsUpdate ==
    Len(rowev.records) >= 2
       => \A c \in Columns :
             (bit_is_set(rowev.col_update, c) /\ ~bit_is_set(rowev.col_present, c))
                => /\ rowev.records[2].event_type = "update_after"
                   /\ rowev.records[2].fields[c] = rowev.after[c]


\* C35: after a successful maxavro_datablock_finalize the block holds no
\* records and no data bytes and has a buffer that can be used, so that
\* the next block written has only what was appended after this one.
C35_FinalizeResetsBlock ==
    [][(/\ block'.finalize.calls # block.finalize.calls
        /\ block'.finalize.rval
        /\ block.datasize > 0)
          => /\ block'.records = 0
             /\ block'.datasize = 0
             /\ block'.buffersize > 0]_vars

\* C36: after every call of maxavro_datablock_add_* that returns true the
\* data of the block is within its buffer: datasize <= buffersize, and
\* buffersize is what the buffer has.
C36_DataWithinBuffer ==
    [][(block'.last = "add true" /\ block'.datasize > block.datasize)
          => /\ block'.datasize <= block'.buffersize
             /\ block'.buffersize <= block'.allocated]_vars

\* C37: a call of maxavro_datablock_add_* in which the growing of the
\* buffer fails returns false and leaves the records, the datasize, the
\* buffersize and the buffer of the block as they were.
C37_FailedGrowthKeepsBlock ==
    [][(block'.last = "add false" /\ ~block'.crashed)
          => /\ block'.records = block.records
             /\ block'.datasize = block.datasize
             /\ block'.buffersize = block.buffersize
             /\ block'.allocated = block.allocated]_vars

====
